---- MODULE Spec2Model ----
(***************************************************************************)
(* Model of the realtime relay server (src/relay-server/app): one session  *)
(* that couples a browser-facing websocket (WebSocketManager) with the     *)
(* upstream realtime API websocket (OpenAIAPIManager) and translates       *)
(* frames in both directions (FrontendMessageHandler, APIMessageHandler).  *)
(*                                                                         *)
(* The two receive loops are asyncio tasks on one event loop.  A dispatch  *)
(* of one received frame is one action; the environment (client, remote    *)
(* API, network) is the source of the frames and of transport failures.    *)
(***************************************************************************)
EXTENDS Naturals, Sequences, FiniteSets, TLC

VARIABLES
    runPc,                  \* RealtimeSession.run: "init", "waiting", "closed"
    fePc,                   \* frontend_handler.handle_messages task
    apiPc,                  \* api_handler.handle_messages task
    is_connected,           \* WebSocketManager.is_connected
    is_closed,              \* WebSocketManager.is_closed
    client,                 \* client transport / starlette client_state
    serverClosed,           \* websocket.close() has been called on the client socket
    apiSocket,              \* OpenAIAPIManager.websocket: None, "open", "dead"
    is_speech_active,       \* FrontendMessageHandler.is_speech_active
    current_audio_item_id,  \* FrontendMessageHandler.current_audio_item_id
    last_item_id,           \* FrontendMessageHandler.last_item_id
    current_response,       \* APIMessageHandler.current_response (its id, or None)
    current_transcript,     \* APIMessageHandler.current_transcript
    last,                   \* the frame or event the last step dispatched
    trace,                  \* the writes of the last step, in order: [to, frame]
    prev,                   \* translator fields as they were before the last step
    txHist,                 \* history: transcript deltas since response.created
    respHist,               \* history: text deltas and frames of the response
    utterance,              \* history: "new" until a binary frame follows the
                            \* session start or a speech_stopped, then "first",
                            \* then "later"
    calls,                  \* log of the calls made on the two link managers
                            \* when they are driven directly (LinkCalls below)
    tool,                   \* one run of get_weather_data on its own: its
                            \* arguments and what it passed to its callback
    endpointPc,             \* main.websocket_endpoint, for each connection
    connection_id,          \* RealtimeSession.connection_id of each connection
    active_sessions,        \* main.active_sessions: connection id -> session
    relay                   \* the two receive loops write by write: the frames
                            \* still to be received, the handlers under way
                            \* and everything written so far

vars == <<runPc, fePc, apiPc, is_connected, is_closed, client, serverClosed,
          apiSocket, is_speech_active, current_audio_item_id, last_item_id,
          current_response, current_transcript, last, trace, prev,
          txHist, respHist, utterance, calls, tool,
          endpointPc, connection_id, active_sessions, relay>>

\* the session registry of main.py
registry == <<endpointPc, connection_id, active_sessions>>

\* the state that is no part of a session
outside == <<tool, registry, relay>>

-----------------------------------------------------------------------------
(* Values *)

None == "None"

\* Bounds of the model.
MaxCalls == 3
MaxDeltas == 2          \* delta events followed per response

Rids == {"r1", "r2"}                \* response ids the remote API uses
Deltas == {"a", "b"}                \* delta fragments
Chunks == {"pcm"}                   \* raw PCM16 audio chunks
ItemText == "Hi"                    \* text of a content part
ItemId == "item_1"                  \* item_id field of upstream events

\* f"msg_{id(self)}" and f"audio_{id(self)}": id(self) is the handler object's
\* identity, the same value in every call of one session.
MsgId == "msg_self"
EventId == "event_self"
AudioId == "audio_self"

\* settings.py
DEFAULT_INSTRUCTIONS == "default_instructions"
WELCOME_INSTRUCTIONS == "welcome_instructions"
WEATHER_INSTRUCTIONS == "weather_instructions"
MAX_OUTPUT_TOKENS == 400

-----------------------------------------------------------------------------
(* base64, as far as the relay uses it: the table for the modelled chunks *)

B64Encode(bytes) == IF bytes = "pcm" THEN "cGNt" ELSE "AA=="

B64Valid(s) == s \in {"cGNt", "AA=="}

B64Decode(s) == IF s = "cGNt" THEN "pcm" ELSE "nul"

-----------------------------------------------------------------------------
(* Frames written to the client (models/messages.py shapes) *)

Control(action) == [type |-> "control", action |-> action]

ControlConnected ==
    [type |-> "control", action |-> "connected",
     greeting |-> "Connected to realtime server"]

ControlDisconnected ==
    [type |-> "control", action |-> "disconnected",
     message |-> "Disconnected from server"]

ControlId(action, id) == [type |-> "control", action |-> action, id |-> id]

Placeholder(id) ==
    [type |-> "user_message", id |-> id, text |-> "...",
     has_audio |-> TRUE, is_transcribing |-> TRUE]

AudioSendError(id) ==
    [type |-> "user_message", id |-> id, text |-> "Failed to send audio",
     has_audio |-> TRUE, is_transcribing |-> FALSE,
     error |-> "Failed to send audio to API"]

TextDelta(id, rid, delta) ==
    [type |-> "text_delta", id |-> id, response_id |-> rid, delta |-> delta]

TranscriptDelta(id, rid, delta) ==
    [type |-> "text_delta", id |-> id, response_id |-> rid, delta |-> delta,
     is_audio_transcript |-> TRUE]

TranscriptFinal(id, text) ==
    [type |-> "assistant_message", id |-> id, text |-> text,
     is_audio_transcript |-> TRUE, final |-> TRUE]

AssistantFinal(id, text) ==
    [type |-> "assistant_message", id |-> id, text |-> text, final |-> TRUE]

Bytes(data) == [type |-> "bytes", data |-> data]

-----------------------------------------------------------------------------
(* Events written to the upstream socket *)

ItemCreate(previous, id, text) ==
    [type |-> "conversation.item.create", event_id |-> EventId,
     previous_item_id |-> previous,
     item |-> [id |-> id, type |-> "message", role |-> "user",
               content |-> <<[type |-> "input_text", text |-> text]>>]]

ResponseCreateText ==
    [type |-> "response.create", event_id |-> EventId,
     response |-> [modalities |-> <<"text">>,
                   instructions |-> DEFAULT_INSTRUCTIONS,
                   max_output_tokens |-> MAX_OUTPUT_TOKENS]]

AudioAppend(b64) == [type |-> "input_audio_buffer.append", audio |-> b64]

AudioCommit == [type |-> "input_audio_buffer.commit"]

SessionUpdate == [type |-> "session.update"]

ResponseCreateWelcome ==
    [type |-> "response.create",
     response |-> [modalities |-> <<"text", "audio">>,
                   instructions |-> WELCOME_INSTRUCTIONS]]

ToolItem(text) ==
    [type |-> "conversation.item.create",
     item |-> [type |-> "message", role |-> "user",
               content |-> <<[type |-> "input_text", text |-> text]>>]]

ResponseCreateWeather ==
    [type |-> "response.create",
     response |-> [modalities |-> <<"audio", "text">>,
                   instructions |-> WEATHER_INSTRUCTIONS]]

-----------------------------------------------------------------------------
(* The two links, as the handlers see them *)

\* faulty variant: the write is attempted whatever the state of the link
DownModeUnguarded(conn, closed, cl) ==
    IF cl = "CONNECTED" THEN "ok" ELSE "raise"

\* WebSocketManager.send_json / send_bytes: a no-op unless the link is open;
\* when it is open the write reaches the client, or raises when the client
\* transport is gone.
DownMode(conn, closed, cl) ==
    IF ~(conn /\ ~closed) THEN "drop"
    ELSE IF cl = "CONNECTED" THEN "ok"
    ELSE "raise"

\* OpenAIAPIManager.send: a silent no-op when there is no socket object; the
\* write reaches the remote end, or raises (and is re-raised) when it is dead.
UpMode(sock) ==
    IF sock = None THEN "drop"
    ELSE IF sock = "open" THEN "ok"
    ELSE "raise"

\* The frames of a run of writes that get through, and whether the run raises.
Sent(mode, frames) == IF mode = "ok" THEN frames ELSE <<>>

\* Entries of the trace of a step.
ToClient(frames) == [i \in 1..Len(frames) |-> [to |-> "client", frame |-> frames[i]]]

ToApi(events) == [i \in 1..Len(events) |-> [to |-> "api", frame |-> events[i]]]

Written(tr, to) ==
    LET sel == SelectSeq(tr, LAMBDA e : e.to = to)
    IN [i \in 1..Len(sel) |-> sel[i].frame]

Raises(mode, frames) == mode = "raise" /\ frames # <<>>

-----------------------------------------------------------------------------
(* Upstream events, as the API handler reads them:                         *)
(* [type, rid, arg, out]; rid is response_id (response.id for               *)
(* response.created / response.done), arg the delta, arguments or item      *)
(* variant, out the output items of a response.done.                        *)

Ev(type, rid, arg) == [type |-> type, rid |-> rid, arg |-> arg, out |-> <<>>]

\* Output items of response.done, by what the handler looks at.
\*   msg_text       assistant message, content [{type: text, text}]
\*   msg_empty      assistant message, content []
\*   msg_audio      assistant message, content [{type: audio, ...}]
\*   function_call  an item that is no message
Outputs == {<<>>, <<"msg_text">>, <<"msg_empty">>, <<"msg_audio">>,
            <<"function_call">>, <<"msg_text", "msg_text">>,
            <<"function_call", "msg_text">>, <<"msg_text", "msg_empty">>}

\* item variants of conversation.item.created (role, first content part)
\* user_audio_inline carries base64 audio, user_audio_inline_bad a string that
\* is no base64 (wrong padding); system_text is an item of another role
ItemVariants == {"user_audio_inline", "user_audio_inline_bad", "user_audio",
                 "user_text", "user_empty", "assistant_text", "assistant_empty",
                 "system_text"}

\* the audio field of the first content element
InlineAudio(variant) == IF variant = "user_audio_inline" THEN "cGNt" ELSE "abc"

\* arguments of response.function_call_arguments.done: no JSON, JSON that is
\* no object ("[]", "null", "5"), "{}", coordinates, a location name
ToolArgs == {"not_json", "not_object", "no_location", "coords", "named"}

ResponseDeltaTypes == {"response.text.delta", "response.audio_transcript.delta"}

ApiEvents ==
         {Ev("response.created", r, "") : r \in Rids}
    \cup {Ev(t, r, d) : t \in ResponseDeltaTypes, r \in Rids, d \in Deltas}
    \cup {Ev("response.audio.delta", r, a) : r \in Rids, a \in {"cGNt", "abc"}}
    \cup {Ev("response.audio_transcript.done", r, "") : r \in Rids}
    \cup {Ev("response.function_call_arguments.delta", r, "{") : r \in Rids}
    \cup {Ev("response.function_call_arguments.done", r, a) :
              r \in Rids, a \in ToolArgs}
    \cup {Ev("response.output_item.added", r, "") : r \in Rids}
    \cup {[type |-> "response.done", rid |-> r, arg |-> "", out |-> o] :
              r \in Rids, o \in Outputs}
    \cup {Ev("conversation.item.created", None, v) : v \in ItemVariants}
    \cup {Ev(t, None, "") :
              t \in {"conversation.item.input_audio_transcription.completed",
                     "conversation.item.input_audio_transcription.failed",
                     "input_audio_buffer.committed",
                     "input_audio_buffer.cleared",
                     "input_audio_buffer.speech_started",
                     "input_audio_buffer.speech_stopped",
                     "session.created",
                     "<invalid json>", "<no type>"}}

\* str.startswith on the event types of the model
IsFunctionCallEvent(t) ==
    t \in {"response.function_call_arguments.delta",
           "response.function_call_arguments.done"}

IsResponseEvent(t) ==
    t \in {"response.created", "response.done", "response.text.delta",
           "response.audio.delta", "response.audio_transcript.delta",
           "response.audio_transcript.done", "response.output_item.added"}

IsTranscriptionEvent(t) ==
    t \in {"conversation.item.input_audio_transcription.completed",
           "conversation.item.input_audio_transcription.failed"}

\* faulty variant: every event type left over is taken for an audio buffer event
IsAudioBufferEventAny(t) == TRUE

IsAudioBufferEvent(t) ==
    t \in {"input_audio_buffer.committed", "input_audio_buffer.cleared",
           "input_audio_buffer.speech_started",
           "input_audio_buffer.speech_stopped"}

-----------------------------------------------------------------------------
(* APIMessageHandler.  A handler maps the event and the fields it reads to  *)
(* [down, up, cr, tr, raised]: the frames written to the client, the events *)
(* written upstream, the new current_response and current_transcript, and  *)
(* whether it left by an exception.                                         *)

Res(down, up, cr, tr, raised) ==
    [down |-> down, up |-> up, cr |-> cr, tr |-> tr, raised |-> raised]

\* one write to the client followed by nothing else
SendDown(frame, cr, tr, dm) ==
    Res(Sent(dm, <<frame>>), <<>>, cr, tr, dm = "raise")

\* faulty variant: a user item without content is shown as an empty message
HandleConversationItemCreatedShowsEmpty(ev, cr, tr, dm) ==
    CASE ev.arg \in {"user_audio_inline", "user_audio_inline_bad"} ->
            \* placeholder, then the inline audio; a failing b64decode or
            \* send_bytes is caught
            LET audio == IF B64Valid(InlineAudio(ev.arg))
                         THEN <<Bytes(B64Decode(InlineAudio(ev.arg)))>>
                         ELSE <<>>
            IN Res(Sent(dm, <<Placeholder(ItemId)>> \o audio),
                   <<>>, cr, tr, dm = "raise")
      [] ev.arg = "user_audio" -> SendDown(Placeholder(ItemId), cr, tr, dm)
      [] ev.arg = "user_text" ->
            SendDown([type |-> "user_message", id |-> ItemId, text |-> ItemText],
                     cr, tr, dm)
      [] ev.arg = "user_empty" ->
            SendDown([type |-> "user_message", id |-> ItemId, text |-> ""],
                     cr, tr, dm)
      [] ev.arg = "assistant_text" ->
            SendDown([type |-> "assistant_message", id |-> ItemId,
                      text |-> ItemText], cr, tr, dm)
      [] ev.arg = "assistant_empty" ->
            SendDown([type |-> "assistant_message", id |-> ItemId, text |-> "",
                      in_progress |-> TRUE], cr, tr, dm)
      [] OTHER -> Res(<<>>, <<>>, cr, tr, FALSE)

HandleConversationItemCreated(ev, cr, tr, dm) ==
    CASE ev.arg \in {"user_audio_inline", "user_audio_inline_bad"} ->
            \* placeholder, then the inline audio; a failing b64decode or
            \* send_bytes is caught
            LET audio == IF B64Valid(InlineAudio(ev.arg))
                         THEN <<Bytes(B64Decode(InlineAudio(ev.arg)))>>
                         ELSE <<>>
            IN Res(Sent(dm, <<Placeholder(ItemId)>> \o audio),
                   <<>>, cr, tr, dm = "raise")
      [] ev.arg = "user_audio" -> SendDown(Placeholder(ItemId), cr, tr, dm)
      [] ev.arg = "user_text" ->
            SendDown([type |-> "user_message", id |-> ItemId, text |-> ItemText],
                     cr, tr, dm)
      [] ev.arg = "user_empty" -> Res(<<>>, <<>>, cr, tr, FALSE)
      [] ev.arg = "assistant_text" ->
            SendDown([type |-> "assistant_message", id |-> ItemId,
                      text |-> ItemText], cr, tr, dm)
      [] ev.arg = "assistant_empty" ->
            SendDown([type |-> "assistant_message", id |-> ItemId, text |-> "",
                      in_progress |-> TRUE], cr, tr, dm)
      [] OTHER -> Res(<<>>, <<>>, cr, tr, FALSE)

HandleTranscriptionEvents(ev, cr, tr, dm) ==
    IF ev.type = "conversation.item.input_audio_transcription.completed"
    THEN SendDown([type |-> "transcription", id |-> ItemId, text |-> ItemText],
                  cr, tr, dm)
    ELSE SendDown([type |-> "user_message", id |-> ItemId,
                   text |-> "Could not transcribe audio", has_audio |-> TRUE,
                   is_transcribing |-> FALSE, error |-> "Transcription failed"],
                  cr, tr, dm)

\* the for loop of response.done over the output items
RECURSIVE DoneItems(_, _)
DoneItems(items, dm) ==
    IF items = <<>> THEN [down |-> <<>>, raised |-> FALSE]
    ELSE IF Head(items) = "msg_empty"
         THEN [down |-> <<>>, raised |-> TRUE]      \* [][0]: IndexError
    ELSE IF Head(items) = "msg_text"
         THEN IF dm = "raise" THEN [down |-> <<>>, raised |-> TRUE]
              ELSE LET rest == DoneItems(Tail(items), dm)
                   IN [down |-> Sent(dm, <<AssistantFinal(ItemId, ItemText)>>)
                                \o rest.down,
                       raised |-> rest.raised]
    ELSE DoneItems(Tail(items), dm)

\* faulty variant: response_complete is written before the items of the output
ResponseDoneCompleteFirst(ev, cr, tr, dm) ==
    LET loop == DoneItems(ev.out, dm)
    IN IF loop.raised \/ dm = "raise" THEN Res(<<>>, <<>>, cr, tr, TRUE)
       ELSE Res(Sent(dm, <<ControlId("response_complete", ev.rid)>>) \o loop.down,
                <<>>, None, "", FALSE)

ResponseDone(ev, cr, tr, dm) ==
    LET loop == DoneItems(ev.out, dm)
    IN IF loop.raised THEN Res(loop.down, <<>>, cr, tr, TRUE)
       ELSE IF dm = "raise" THEN Res(loop.down, <<>>, cr, tr, TRUE)
       ELSE Res(loop.down \o Sent(dm, <<ControlId("response_complete", ev.rid)>>),
                <<>>, None, "", FALSE)

ResponseCreated(ev, cr, tr, dm) == Res(<<>>, <<>>, ev.rid, "", FALSE)

\* faulty variant: the delta is put in front of the transcript
TranscriptDeltaEventPrepend(ev, cr, tr, dm) ==
    Res(Sent(dm, <<TranscriptDelta(ItemId, ev.rid, ev.arg)>>), <<>>,
        cr, ev.arg \o tr, dm = "raise")

TranscriptDeltaEvent(ev, cr, tr, dm) ==
    \* the transcript is extended before the frame is written
    Res(Sent(dm, <<TranscriptDelta(ItemId, ev.rid, ev.arg)>>), <<>>,
        cr, tr \o ev.arg, dm = "raise")

TranscriptDoneEvent(ev, cr, tr, dm) ==
    \* the transcript is cleared after the frame was written
    IF dm = "raise" THEN Res(<<>>, <<>>, cr, tr, TRUE)
    ELSE Res(Sent(dm, <<TranscriptFinal(ItemId, tr)>>), <<>>, cr, "", FALSE)

AudioDeltaEvent(ev, cr, tr, dm) ==
    \* decoding and send_bytes sit in one try block: nothing escapes
    IF B64Valid(ev.arg)
    THEN Res(Sent(dm, <<Bytes(B64Decode(ev.arg))>>), <<>>, cr, tr, FALSE)
    ELSE Res(<<>>, <<>>, cr, tr, FALSE)

\* faulty variant: the response id of the event is not compared
MatchesCurrentAnyId(ev, cr) == cr # None

\* self.current_response.get("id") raises when current_response is None
MatchesCurrent(ev, cr) == cr # None /\ ev.rid = cr

HandleResponseEvents(ev, cr, tr, dm) ==
    CASE ev.type = "response.created" -> ResponseCreated(ev, cr, tr, dm)
      [] ev.type = "response.done" -> ResponseDone(ev, cr, tr, dm)
      [] ev.type \in {"response.text.delta", "response.audio.delta",
                      "response.audio_transcript.delta",
                      "response.audio_transcript.done"} ->
            IF cr = None THEN Res(<<>>, <<>>, cr, tr, TRUE)
            ELSE IF ~MatchesCurrent(ev, cr) THEN Res(<<>>, <<>>, cr, tr, FALSE)
            ELSE CASE ev.type = "response.text.delta" ->
                        SendDown(TextDelta(ItemId, ev.rid, ev.arg), cr, tr, dm)
                   [] ev.type = "response.audio.delta" ->
                        AudioDeltaEvent(ev, cr, tr, dm)
                   [] ev.type = "response.audio_transcript.delta" ->
                        TranscriptDeltaEvent(ev, cr, tr, dm)
                   [] OTHER -> TranscriptDoneEvent(ev, cr, tr, dm)
      [] OTHER -> Res(<<>>, <<>>, cr, tr, FALSE)

\* faulty variant: committed is answered with a commit upstream as well, and
\* cleared with nothing
HandleAudioBufferEventsEcho(ev, cr, tr, dm) ==
    CASE ev.type = "input_audio_buffer.committed" ->
            Res(Sent(dm, <<ControlId("processing_speech", ItemId)>>),
                <<AudioCommit>>, cr, tr, dm = "raise")
      [] ev.type = "input_audio_buffer.cleared" -> Res(<<>>, <<>>, cr, tr, FALSE)
      [] ev.type = "input_audio_buffer.speech_started" ->
            SendDown(ControlId("speech_started", ItemId), cr, tr, dm)
      [] OTHER ->
            SendDown(ControlId("speech_stopped", ItemId), cr, tr, dm)

HandleAudioBufferEvents(ev, cr, tr, dm) ==
    CASE ev.type = "input_audio_buffer.committed" ->
            SendDown(ControlId("processing_speech", ItemId), cr, tr, dm)
      [] ev.type = "input_audio_buffer.cleared" ->
            SendDown(Control("audio_cleared"), cr, tr, dm)
      [] ev.type = "input_audio_buffer.speech_started" ->
            SendDown(ControlId("speech_started", ItemId), cr, tr, dm)
      [] OTHER ->
            \* speech_stopped: the control frame and nothing else
            SendDown(ControlId("speech_stopped", ItemId), cr, tr, dm)

-----------------------------------------------------------------------------
(* tools/weatherLookup.py: get_weather_data with api_manager.send as its    *)
(* callback.  geo and http are the outcomes of the two HTTP lookups.        *)

GeoOutcomes == {"found", "empty", "fail"}
HttpOutcomes == {"ok", "fail"}

GetWeatherData(arg, geo, http, um) ==
    LET error == <<ToolItem("Error")>>
        events ==
            IF arg = "named" /\ geo = "fail" THEN error
            ELSE IF arg = "named" /\ geo = "empty" THEN error
            ELSE IF arg = "no_location" THEN error
            ELSE IF http = "fail" THEN error
            ELSE <<ToolItem("Weather data"), ResponseCreateWeather>>
    IN  \* a raising callback is caught by the tool's except clause, which calls
        \* the callback once more; that call raises out of the tool
        [up |-> Sent(um, events), raised |-> Raises(um, events)]

\* get_weather_data by the calls of its callback.  The arguments are lat, lon
\* and location_name as the caller passes them (None when the key is missing),
\* geo and http are the outcomes of the two lookups, and cb is the outcome of
\* the first, second and third call of the callback.
Lats == {None, "59.91"}

Lons == {None, "10.75"}

LocationNames == {None, "", "Oslo"}

CallbackOutcomes == {<<a, b, c>> : a, b, c \in {"ok", "raise"}}

\* Python's truth value of location_name
Truthy(v) == v # None /\ v # ""

\* faulty variant: no return after the error item, the tool goes on to the
\* forecast
ToolPlanNoReturn(lat, lon, location_name, geo, http) ==
    LET error == <<ToolItem("Error")>>
        data == <<ToolItem("Weather data"), ResponseCreateWeather>>
    IN IF Truthy(location_name) /\ geo = "fail"
       THEN [events |-> <<>>, fault |-> TRUE]
       ELSE IF Truthy(location_name) /\ geo = "empty"
       THEN [events |-> error \o data, fault |-> FALSE]
       ELSE IF ~Truthy(location_name) /\ (lat = None \/ lon = None)
       THEN [events |-> error \o data, fault |-> FALSE]
       ELSE IF http = "fail" THEN [events |-> <<>>, fault |-> TRUE]
       ELSE [events |-> data, fault |-> FALSE]

\* The try block: the events it passes to the callback when every call of the
\* callback returns, and whether a lookup raises before any of them.
ToolPlan(lat, lon, location_name, geo, http) ==
    LET error == <<ToolItem("Error")>>
    IN IF Truthy(location_name) /\ geo = "fail"
       THEN [events |-> <<>>, fault |-> TRUE]
       ELSE IF Truthy(location_name) /\ geo = "empty"
       THEN [events |-> error, fault |-> FALSE]          \* not found: return
       \* a found location overrides lat and lon
       ELSE IF ~Truthy(location_name) /\ (lat = None \/ lon = None)
       THEN [events |-> error, fault |-> FALSE]          \* return
       ELSE IF http = "fail" THEN [events |-> <<>>, fault |-> TRUE]
       ELSE [events |-> <<ToolItem("Weather data"), ResponseCreateWeather>>,
             fault |-> FALSE]

\* The whole function: a raising callback leaves the try block like a failed
\* lookup, and the except clause passes one more error item to the callback;
\* when that call raises too the error leaves the tool.
\* [passed, raised]: the calls of the callback as [event, outcome], in order.
GetWeatherDataCalls(lat, lon, location_name, geo, http, cb) ==
    LET plan == ToolPlan(lat, lon, location_name, geo, http)
        raising == {i \in 1..Len(plan.events) : cb[i] = "raise"}
        n == IF raising = {} THEN Len(plan.events)
             ELSE CHOOSE i \in raising : \A j \in raising : i <= j
        tried == [i \in 1..n |-> [event |-> plan.events[i], outcome |-> cb[i]]]
    IN IF ~plan.fault /\ raising = {}
       THEN [passed |-> tried, raised |-> FALSE]
       ELSE [passed |-> Append(tried, [event |-> ToolItem("Error"),
                                       outcome |-> cb[n + 1]]),
             raised |-> cb[n + 1] = "raise"]

\* faulty variant: the tool is run a second time after it returned
HandleFunctionCallEventsTwice(ev, cr, tr, dm, um, geo, http) ==
    IF cr = None THEN Res(<<>>, <<>>, cr, tr, TRUE)
    ELSE IF ~MatchesCurrent(ev, cr) THEN Res(<<>>, <<>>, cr, tr, FALSE)
    ELSE IF ev.type = "response.function_call_arguments.delta"
         THEN Res(<<>>, <<>>, cr, tr, FALSE)
    ELSE IF ev.arg \in {"not_json", "not_object"}
         THEN Res(<<>>, <<>>, cr, tr, FALSE)
    ELSE LET t == GetWeatherData(ev.arg, geo, http, um)
         IN Res(<<>>, t.up \o t.up, cr, tr, FALSE)

HandleFunctionCallEvents(ev, cr, tr, dm, um, geo, http) ==
    IF cr = None THEN Res(<<>>, <<>>, cr, tr, TRUE)
    ELSE IF ~MatchesCurrent(ev, cr) THEN Res(<<>>, <<>>, cr, tr, FALSE)
    ELSE IF ev.type = "response.function_call_arguments.delta"
         THEN Res(<<>>, <<>>, cr, tr, FALSE)
    ELSE IF ev.arg = "not_json" THEN Res(<<>>, <<>>, cr, tr, FALSE)
    ELSE IF ev.arg = "not_object"
         \* args.get raises AttributeError before the tool is called
         THEN Res(<<>>, <<>>, cr, tr, FALSE)
    ELSE \* json.JSONDecodeError and Exception are both caught here
         Res(<<>>, GetWeatherData(ev.arg, geo, http, um).up, cr, tr, FALSE)

\* APIMessageHandler.handle_message: json.loads, the dispatch on the type,
\* and the except clauses that swallow whatever a handler raises.
HandleApiMessage(ev, cr, tr, dm, um, geo, http) ==
    LET r == CASE ev.type = "<invalid json>" -> Res(<<>>, <<>>, cr, tr, TRUE)
               [] ev.type = "<no type>" -> Res(<<>>, <<>>, cr, tr, TRUE)
               [] ev.type = "conversation.item.created" ->
                    HandleConversationItemCreated(ev, cr, tr, dm)
               [] IsTranscriptionEvent(ev.type) ->
                    HandleTranscriptionEvents(ev, cr, tr, dm)
               [] IsFunctionCallEvent(ev.type) ->
                    HandleFunctionCallEvents(ev, cr, tr, dm, um, geo, http)
               [] IsResponseEvent(ev.type) ->
                    HandleResponseEvents(ev, cr, tr, dm)
               [] IsAudioBufferEvent(ev.type) ->
                    HandleAudioBufferEvents(ev, cr, tr, dm)
               [] OTHER -> Res(<<>>, <<>>, cr, tr, FALSE)
    IN [r EXCEPT !.raised = FALSE]

-----------------------------------------------------------------------------
(* FrontendMessageHandler *)

\* Frames of the client: a binary frame, or a text frame by what the JSON in it
\* is: [type, arg].
ClientFrames ==
         {[type |-> "<bytes>", arg |-> c] : c \in Chunks}
    \cup {[type |-> "user_message", arg |-> t] : t \in {"", "hi", "<missing>"}}
    \cup {[type |-> t, arg |-> ""] :
              t \in {"disconnect", "ping", "<invalid json>",
                     "<not an object>", "<no type>"}}

\* faulty variant: a failed append leaves is_speech_active set
HandleAudioChunkKeepsFlag(chunk, sa, aid, dm, um) ==
    IF um = "drop" THEN [out |-> <<>>, sa |-> sa, aid |-> aid]
    ELSE
    LET aid1 == IF ~sa THEN AudioId ELSE aid
        intro == IF ~sa THEN <<Placeholder(aid1)>> ELSE <<>>
    IN IF um = "ok"
       THEN [out |-> ToClient(Sent(dm, intro))
                     \o ToApi(<<AudioAppend(B64Encode(chunk))>>),
             sa |-> TRUE, aid |-> aid1]
       ELSE [out |-> ToClient(Sent(dm, intro \o <<AudioSendError(aid1)>>)),
             sa |-> TRUE, aid |-> aid1]

\* faulty variant: the chunk is forwarded before the placeholder is written
HandleAudioChunkAppendFirst(chunk, sa, aid, dm, um) ==
    IF um = "drop" THEN [out |-> <<>>, sa |-> sa, aid |-> aid]
    ELSE
    LET aid1 == IF ~sa THEN AudioId ELSE aid
        intro == IF ~sa THEN <<Placeholder(aid1)>> ELSE <<>>
    IN IF um = "ok"
       THEN [out |-> ToApi(<<AudioAppend(B64Encode(chunk))>>)
                     \o ToClient(Sent(dm, intro)),
             sa |-> TRUE, aid |-> aid1]
       ELSE [out |-> ToClient(Sent(dm, intro \o <<AudioSendError(aid1)>>)),
             sa |-> FALSE, aid |-> aid1]

\* handle_audio_chunk: [out, sa, aid]; out is the writes to both links in order
HandleAudioChunk(chunk, sa, aid, dm, um) ==
    IF um = "drop" THEN [out |-> <<>>, sa |-> sa, aid |-> aid]
    ELSE
    LET first == ~sa
        aid1 == IF first THEN AudioId ELSE aid
        intro == IF first THEN <<Placeholder(aid1)>> ELSE <<>>
    IN IF Raises(dm, intro)
       THEN \* the placeholder could not be written: outer except
            [out |-> <<>>, sa |-> TRUE, aid |-> aid1]
       ELSE IF um = "ok"
       THEN [out |-> ToClient(Sent(dm, intro))
                     \o ToApi(<<AudioAppend(B64Encode(chunk))>>),
             sa |-> TRUE, aid |-> aid1]
       ELSE \* the append raised: stop speech capture and tell the client
            [out |-> ToClient(Sent(dm, intro \o <<AudioSendError(aid1)>>)),
             sa |-> FALSE, aid |-> aid1]

\* faulty variant: response.create is written before conversation.item.create
HandleTextMessageSwapped(text, lid, um, dies) ==
    IF text = "" THEN [up |-> <<>>, lid |-> lid, raised |-> FALSE]
    ELSE LET item == ItemCreate(lid, MsgId, text)
         IN CASE um = "drop" -> [up |-> <<>>, lid |-> MsgId, raised |-> FALSE]
              [] um = "raise" -> [up |-> <<>>, lid |-> lid, raised |-> TRUE]
              [] OTHER ->
                    IF dies THEN [up |-> <<ResponseCreateText>>, lid |-> lid,
                                  raised |-> TRUE]
                    ELSE [up |-> <<ResponseCreateText, item>>, lid |-> MsgId,
                          raised |-> FALSE]

\* faulty variant: last_item_id is assigned before the second write
HandleTextMessageEarlyId(text, lid, um, dies) ==
    IF text = "" THEN [up |-> <<>>, lid |-> lid, raised |-> FALSE]
    ELSE LET item == ItemCreate(lid, MsgId, text)
         IN CASE um = "drop" -> [up |-> <<>>, lid |-> MsgId, raised |-> FALSE]
              [] um = "raise" -> [up |-> <<>>, lid |-> lid, raised |-> TRUE]
              [] OTHER ->
                    IF dies THEN [up |-> <<item>>, lid |-> MsgId, raised |-> TRUE]
                    ELSE [up |-> <<item, ResponseCreateText>>, lid |-> MsgId,
                          raised |-> FALSE]

\* faulty variant: the empty text is not rejected
HandleTextMessageNoCheck(text, lid, um, dies) ==
    LET item == ItemCreate(lid, MsgId, text)
    IN CASE um = "drop" -> [up |-> <<>>, lid |-> MsgId, raised |-> FALSE]
         [] um = "raise" -> [up |-> <<>>, lid |-> lid, raised |-> TRUE]
         [] OTHER ->
               IF dies THEN [up |-> <<item>>, lid |-> lid, raised |-> TRUE]
               ELSE [up |-> <<item, ResponseCreateText>>, lid |-> MsgId,
                     raised |-> FALSE]

\* handle_text_message: [up, lid, raised]; dies: the upstream socket dies
\* between the two writes.
HandleTextMessage(text, lid, um, dies) ==
    IF text = "" THEN [up |-> <<>>, lid |-> lid, raised |-> FALSE]
    ELSE LET item == ItemCreate(lid, MsgId, text)
         IN CASE um = "drop" -> [up |-> <<>>, lid |-> MsgId, raised |-> FALSE]
              [] um = "raise" -> [up |-> <<>>, lid |-> lid, raised |-> TRUE]
              [] OTHER ->
                    IF dies THEN [up |-> <<item>>, lid |-> lid, raised |-> TRUE]
                    ELSE [up |-> <<item, ResponseCreateText>>, lid |-> MsgId,
                          raised |-> FALSE]

\* faulty variant: the link is marked closed only after the final frame and
\* the transport close went through
WsCloseMarksLast(conn, closed, cl, sc) ==
    IF closed \/ cl # "CONNECTED"
    THEN [is_connected |-> conn, is_closed |-> closed, serverClosed |-> sc,
          down |-> <<>>]
    ELSE [is_connected |-> FALSE, is_closed |-> TRUE, serverClosed |-> TRUE,
          down |-> <<ControlDisconnected>>]

\* faulty variant: close is not guarded by is_closed
WsCloseRepeats(conn, closed, cl, sc) ==
    [is_connected |-> FALSE, is_closed |-> TRUE, serverClosed |-> TRUE,
     down |-> IF cl = "CONNECTED" THEN <<ControlDisconnected>> ELSE <<>>]

\* faulty variant: the transport is closed without the final frame
WsCloseSilent(conn, closed, cl, sc) ==
    IF closed
    THEN [is_connected |-> conn, is_closed |-> closed, serverClosed |-> sc,
          down |-> <<>>]
    ELSE [is_connected |-> FALSE, is_closed |-> TRUE, serverClosed |-> TRUE,
          down |-> <<>>]

\* WebSocketManager.close: [is_connected, is_closed, serverClosed, down]
WsClose(conn, closed, cl, sc) ==
    IF closed
    THEN [is_connected |-> conn, is_closed |-> closed, serverClosed |-> sc,
          down |-> <<>>]
    ELSE [is_connected |-> FALSE, is_closed |-> TRUE, serverClosed |-> TRUE,
          \* the final frame is written to the socket directly; a failure is
          \* swallowed; it is not attempted once client_state is DISCONNECTED
          down |-> IF cl = "CONNECTED" THEN <<ControlDisconnected>> ELSE <<>>]

\* handle_disconnect: the notice through send_json, then ws_manager.close()
HandleDisconnect(conn, closed, cl, sc) ==
    LET notice == Sent(DownMode(conn, closed, cl), <<ControlDisconnected>>)
        c == WsClose(conn, closed, cl, sc)
    IN [c EXCEPT !.down = notice \o c.down]

\* data.get("text", "")
TextOf(frame) == IF frame.arg = "<missing>" THEN "" ELSE frame.arg

\* faulty variant: no branch for the disconnect message, which is then a
\* message of unknown type
HandleFrontendMessageNoDisconnect(frame, conn, closed, cl, sc, sock, sa, aid, lid, dies) ==
    LET dm == DownMode(conn, closed, cl)
        um == UpMode(sock)
        ws0 == [is_connected |-> conn, is_closed |-> closed,
                serverClosed |-> sc, down |-> <<>>]
        Keep == [out |-> <<>>, sa |-> sa, aid |-> aid,
                 lid |-> lid, ws |-> ws0, stop |-> FALSE, raised |-> FALSE]
    IN IF ~conn \/ closed THEN Keep
       ELSE CASE frame.type = "<bytes>" ->
                    LET a == HandleAudioChunk(frame.arg, sa, aid, dm, um)
                    IN [Keep EXCEPT !.out = a.out, !.sa = a.sa, !.aid = a.aid]
              [] frame.type = "<not an object>" ->
                    [Keep EXCEPT !.raised = TRUE]
              [] frame.type = "user_message" ->
                    LET t == HandleTextMessage(TextOf(frame), lid, um, dies)
                    IN [Keep EXCEPT !.out = ToApi(t.up), !.lid = t.lid,
                                    !.raised = t.raised]
              [] OTHER -> Keep

\* handle_message for one received frame:
\* [out, sa, aid, lid, ws, stop, raised]
HandleFrontendMessage(frame, conn, closed, cl, sc, sock, sa, aid, lid, dies) ==
    LET dm == DownMode(conn, closed, cl)
        um == UpMode(sock)
        ws0 == [is_connected |-> conn, is_closed |-> closed,
                serverClosed |-> sc, down |-> <<>>]
        Keep == [out |-> <<>>, sa |-> sa, aid |-> aid,
                 lid |-> lid, ws |-> ws0, stop |-> FALSE, raised |-> FALSE]
    IN IF ~conn \/ closed THEN Keep
       ELSE CASE frame.type = "<bytes>" ->
                    LET a == HandleAudioChunk(frame.arg, sa, aid, dm, um)
                    IN [Keep EXCEPT !.out = a.out, !.sa = a.sa, !.aid = a.aid]
              [] frame.type = "<invalid json>" -> Keep
              [] frame.type = "<not an object>" ->
                    \* data.get on a list or a number: AttributeError, not caught
                    [Keep EXCEPT !.raised = TRUE]
              [] frame.type = "disconnect" ->
                    LET d == HandleDisconnect(conn, closed, cl, sc)
                    IN [Keep EXCEPT !.out = ToClient(d.down), !.ws = d,
                                    !.stop = TRUE]
              [] frame.type = "user_message" ->
                    LET t == HandleTextMessage(TextOf(frame), lid, um, dies)
                    IN [Keep EXCEPT !.out = ToApi(t.up), !.lid = t.lid,
                                    !.raised = t.raised]
              [] OTHER -> Keep

-----------------------------------------------------------------------------
(* History of the events the API loop dispatched, kept for the properties.  *)
(* It follows the events only, never the handler's own fields.              *)

NoTxHist == [rid |-> None, phase |-> "none", ds |-> <<>>]

\* response.created{R}, then transcript deltas for R, then the transcript's
\* done event for R: the deltas in arrival order.  Events addressed to another
\* response do not belong to the scenario and leave the history alone.
TxHistNext(h, ev) ==
    CASE ev.type = "response.created" ->
            [rid |-> ev.rid, phase |-> "open", ds |-> <<>>]
      [] ev.type = "response.done" -> NoTxHist
      [] h.phase = "open" /\ ev.rid = h.rid
                          /\ ev.type = "response.audio_transcript.delta" ->
            [h EXCEPT !.ds = Append(h.ds, ev.arg)]
      [] h.phase = "open" /\ ev.rid = h.rid
                          /\ ev.type = "response.audio_transcript.done" ->
            [h EXCEPT !.phase = "flushed"]
      [] h.phase = "open" -> h
      [] OTHER -> NoTxHist

NoRespHist == [rid |-> None, phase |-> "none", ds |-> <<>>, frames |-> <<>>]

\* response.created{R}, then text deltas for R, then response.done for R whose
\* output is one assistant text message: the deltas, and the frames the client
\* got for these events.  The history is dropped when another event arrives,
\* when the client link is not up, or after MaxDeltas deltas.
RespHistNext(h, ev, down, dm) ==
    CASE ev.type = "response.created" ->
            [NoRespHist EXCEPT !.rid = ev.rid, !.phase = "deltas"]
      [] dm = "ok" /\ h.phase = "deltas" /\ ev.rid = h.rid
                   /\ ev.type = "response.text.delta"
                   /\ Len(h.ds) < MaxDeltas ->
            [h EXCEPT !.ds = Append(h.ds, ev.arg), !.frames = h.frames \o down]
      [] dm = "ok" /\ h.phase = "deltas" /\ ev.rid = h.rid
                   /\ ev.type = "response.done"
                   /\ ev.out = <<"msg_text">> ->
            [h EXCEPT !.phase = "done", !.frames = h.frames \o down]
      [] OTHER -> NoRespHist

-----------------------------------------------------------------------------
(* The session *)

NoInput == [loop |-> "none", type |-> "", rid |-> None, arg |-> "", out |-> <<>>]

Input(loop, type, rid, arg, out) ==
    [loop |-> loop, type |-> type, rid |-> rid, arg |-> arg, out |-> out]

DownEmit == Written(trace, "client")

UpEmit == Written(trace, "api")

Fields == [sa |-> is_speech_active, lid |-> last_item_id,
           cr |-> current_response, tr |-> current_transcript,
           dm |-> DownMode(is_connected, is_closed, client),
           um |-> UpMode(apiSocket),
           open |-> is_connected /\ ~is_closed]

SessionInit ==
    /\ runPc = "init"
    /\ fePc = "idle"
    /\ apiPc = "idle"
    /\ is_connected = FALSE
    /\ is_closed = FALSE
    /\ client = "CONNECTING"
    /\ serverClosed = FALSE
    /\ apiSocket = None
    /\ is_speech_active = FALSE
    /\ current_audio_item_id = None
    /\ last_item_id = None
    /\ current_response = None
    /\ current_transcript = ""
    /\ last = NoInput
    /\ trace = <<>>
    /\ prev = [sa |-> FALSE, lid |-> None, cr |-> None, tr |-> "",
               dm |-> "drop", um |-> "drop", open |-> FALSE]
    /\ txHist = NoTxHist
    /\ respHist = NoRespHist
    /\ utterance = "new"
    /\ calls = <<>>

\* no tool run on its own
NoTool == [pc |-> "none"]

\* the connections of the server and the values id(websocket) can take; an
\* identity is unique among the objects alive at the same time
Conns == {"c1", "c2", "c3"}

ObjectIds == {"id1", "id2", "id3"}

\* active_sessions = {} and no connection yet
RegistryInit ==
    /\ endpointPc = [c \in Conns |-> "none"]
    /\ connection_id = [c \in Conns |-> None]
    /\ active_sessions = <<>>

\* the loops are not followed write by write
NoRelay == [pc |-> "none"]

Init == SessionInit /\ tool = NoTool /\ RegistryInit /\ relay = NoRelay

\* RealtimeSession.close: api_manager.close(), then ws_manager.close()
SessionClose(conn, closed, cl, sc) == WsClose(conn, closed, cl, sc)

\* faulty variant: a failed connect is not terminal, the two tasks are started
RunSetupStartsAnyway(connect) ==
    /\ runPc = "init"
    /\ client' = "CONNECTED"
    /\ runPc' = "waiting"
    /\ fePc' = "recv"
    /\ apiPc' = "recv"
    /\ is_connected' = TRUE
    /\ is_closed' = FALSE
    /\ serverClosed' = FALSE
    /\ apiSocket' = IF connect = "open" THEN "open" ELSE None
    /\ trace' = ToClient(<<ControlConnected>>)
          \o (IF connect = "open"
              THEN ToApi(<<SessionUpdate, ResponseCreateWelcome>>) ELSE <<>>)
    /\ last' = Input("run", "setup", None, connect, <<>>)
    /\ prev' = Fields
    /\ UNCHANGED <<is_speech_active, current_audio_item_id, last_item_id,
                   current_response, current_transcript, txHist, respHist,
                   utterance, calls, outside>>

\* faulty variant: the welcome response.create is written before session.update
RunSetupWelcomeFirst(connect) ==
    /\ runPc = "init"
    /\ LET c == SessionClose(TRUE, FALSE, "CONNECTED", FALSE)
       IN /\ client' = "CONNECTED"
          /\ IF connect = "open"
             THEN /\ runPc' = "waiting"
                  /\ fePc' = "recv"
                  /\ apiPc' = "recv"
                  /\ is_connected' = TRUE
                  /\ is_closed' = FALSE
                  /\ serverClosed' = FALSE
                  /\ apiSocket' = "open"
                  /\ trace' = ToClient(<<ControlConnected>>)
                        \o ToApi(<<ResponseCreateWelcome, SessionUpdate>>)
             ELSE /\ runPc' = "closed"
                  /\ UNCHANGED <<fePc, apiPc>>
                  /\ is_connected' = c.is_connected
                  /\ is_closed' = c.is_closed
                  /\ serverClosed' = c.serverClosed
                  /\ apiSocket' = None
                  /\ trace' = ToClient(<<ControlConnected>> \o c.down)
    /\ last' = Input("run", "setup", None, connect, <<>>)
    /\ prev' = Fields
    /\ UNCHANGED <<is_speech_active, current_audio_item_id, last_item_id,
                   current_response, current_transcript, txHist, respHist,
                   utterance, calls, outside>>

\* run(), up to the start of the two tasks: accept, connect, session.update,
\* the welcome response.create.  connect is the outcome of websockets.connect.
RunSetup(connect) ==
    /\ runPc = "init"
    /\ LET greeting == <<ControlConnected>>
           started == connect = "open"
           c == SessionClose(TRUE, FALSE, "CONNECTED", FALSE)
       IN /\ client' = "CONNECTED"
          /\ IF started
             THEN /\ runPc' = "waiting"
                  /\ fePc' = "recv"
                  /\ apiPc' = "recv"
                  /\ is_connected' = TRUE
                  /\ is_closed' = FALSE
                  /\ serverClosed' = FALSE
                  /\ apiSocket' = "open"
                  /\ trace' = ToClient(greeting)
                        \o ToApi(<<SessionUpdate, ResponseCreateWelcome>>)
             ELSE \* connect raised, or the socket died before session.update
                  \* could be written: except, finally close()
                  /\ runPc' = "closed"
                  /\ UNCHANGED <<fePc, apiPc>>
                  /\ is_connected' = c.is_connected
                  /\ is_closed' = c.is_closed
                  /\ serverClosed' = c.serverClosed
                  /\ apiSocket' = None
                  /\ trace' = ToClient(greeting \o c.down)
    /\ last' = Input("run", "setup", None, connect, <<>>)
    /\ prev' = Fields
    /\ UNCHANGED <<calls, outside>>
    /\ UNCHANGED <<is_speech_active, current_audio_item_id, last_item_id,
                   current_response, current_transcript, txHist, respHist,
                   utterance>>

\* One iteration of FrontendMessageHandler.handle_messages: receive a frame,
\* handle_message, and on the way out of the loop the finally clause.
FeDispatch(frame, dies) ==
    /\ runPc = "waiting"
    /\ fePc = "recv"
    /\ client = "CONNECTED"
    /\ dies => /\ frame.type = "user_message"
               /\ TextOf(frame) # ""
               /\ apiSocket = "open"
    /\ LET r == HandleFrontendMessage(frame, is_connected, is_closed, client,
                                      serverClosed, apiSocket, is_speech_active,
                                      current_audio_item_id, last_item_id, dies)
           exit == r.stop \/ r.raised \/ r.ws.is_closed
           c == WsClose(r.ws.is_connected, r.ws.is_closed, client,
                        r.ws.serverClosed)
       IN /\ is_speech_active' = r.sa
          /\ current_audio_item_id' = r.aid
          /\ last_item_id' = r.lid
          /\ apiSocket' = IF dies THEN "dead" ELSE apiSocket
          /\ IF exit
             THEN /\ fePc' = "done"
                  /\ is_connected' = c.is_connected
                  /\ is_closed' = c.is_closed
                  /\ serverClosed' = c.serverClosed
                  /\ trace' = r.out \o ToClient(c.down)
             ELSE /\ fePc' = "recv"
                  /\ is_connected' = r.ws.is_connected
                  /\ is_closed' = r.ws.is_closed
                  /\ serverClosed' = r.ws.serverClosed
                  /\ trace' = r.out
    /\ utterance' = IF frame.type # "<bytes>" THEN utterance
                    ELSE IF utterance = "new" THEN "first" ELSE "later"
    /\ last' = Input("fe", frame.type, None, frame.arg, <<>>)
    /\ prev' = Fields
    /\ UNCHANGED <<calls, outside>>
    /\ UNCHANGED <<runPc, apiPc, client, current_response, current_transcript,
                   txHist, respHist>>

\* The client is gone: receive() returns the websocket.disconnect message,
\* client_state becomes DISCONNECTED, the loop breaks, finally close().
FeDisconnected ==
    /\ runPc = "waiting"
    /\ fePc = "recv"
    /\ client = "GONE"
    /\ LET c == WsClose(is_connected, is_closed, "DISCONNECTED", serverClosed)
       IN /\ is_connected' = c.is_connected
          /\ is_closed' = c.is_closed
          /\ serverClosed' = c.serverClosed
          /\ trace' = ToClient(c.down)
    /\ client' = "DISCONNECTED"
    /\ fePc' = "done"
    /\ last' = Input("fe", "websocket.disconnect", None, "", <<>>)
    /\ prev' = Fields
    /\ UNCHANGED <<calls, outside>>
    /\ UNCHANGED <<runPc, apiPc, apiSocket, is_speech_active,
                   current_audio_item_id, last_item_id, current_response,
                   current_transcript, txHist, respHist, utterance>>

\* faulty variant: the API loop ends the utterance on speech_stopped, writing a
\* field of the frontend handler
ApiDispatchEndsSpeech(ev, geo, http) ==
    /\ runPc = "waiting"
    /\ apiPc = "recv"
    /\ apiSocket = "open"
    /\ ev.type = "response.audio_transcript.delta"
          => Len(current_transcript) < MaxDeltas
    /\ (geo # "found" \/ http # "ok")
          => /\ ev.type = "response.function_call_arguments.done"
             /\ ev.arg \in {"coords", "named"}
             /\ ev.arg = "coords" => geo = "found"
    /\ LET dm == DownMode(is_connected, is_closed, client)
           r == HandleApiMessage(ev, current_response, current_transcript, dm,
                                 UpMode(apiSocket), geo, http)
       IN /\ current_response' = r.cr
          /\ current_transcript' = r.tr
          /\ trace' = ToClient(r.down) \o ToApi(r.up)
          /\ txHist' = TxHistNext(txHist, ev)
          /\ respHist' = RespHistNext(respHist, ev, r.down, dm)
    /\ apiPc' = IF ~is_closed /\ apiSocket # None THEN "recv" ELSE "done"
    /\ utterance' = IF ev.type = "input_audio_buffer.speech_stopped"
                    THEN "new" ELSE utterance
    /\ last' = Input("api", ev.type, ev.rid, ev.arg, ev.out)
    /\ prev' = Fields
    /\ UNCHANGED <<calls, outside>>
    /\ UNCHANGED <<runPc, fePc, is_connected, is_closed, client, serverClosed,
                   apiSocket, current_audio_item_id, last_item_id>>
    /\ is_speech_active' = IF ev.type = "input_audio_buffer.speech_stopped"
                           THEN FALSE ELSE is_speech_active

\* One iteration of APIMessageHandler.handle_messages: receive an event,
\* handle_message, then the loop condition.
ApiDispatch(ev, geo, http) ==
    /\ runPc = "waiting"
    /\ apiPc = "recv"
    /\ apiSocket = "open"
    /\ ev.type = "response.audio_transcript.delta"
          => Len(current_transcript) < MaxDeltas
    /\ (geo # "found" \/ http # "ok")
          => /\ ev.type = "response.function_call_arguments.done"
             /\ ev.arg \in {"coords", "named"}
             /\ ev.arg = "coords" => geo = "found"
    /\ LET dm == DownMode(is_connected, is_closed, client)
           r == HandleApiMessage(ev, current_response, current_transcript, dm,
                                 UpMode(apiSocket), geo, http)
       IN /\ current_response' = r.cr
          /\ current_transcript' = r.tr
          /\ trace' = ToClient(r.down) \o ToApi(r.up)
          /\ txHist' = TxHistNext(txHist, ev)
          /\ respHist' = RespHistNext(respHist, ev, r.down, dm)
    /\ apiPc' = IF ~is_closed /\ apiSocket # None THEN "recv" ELSE "done"
    /\ utterance' = IF ev.type = "input_audio_buffer.speech_stopped"
                    THEN "new" ELSE utterance
    /\ last' = Input("api", ev.type, ev.rid, ev.arg, ev.out)
    /\ prev' = Fields
    /\ UNCHANGED <<calls, outside>>
    /\ UNCHANGED <<runPc, fePc, is_connected, is_closed, client, serverClosed,
                   apiSocket, is_speech_active, current_audio_item_id,
                   last_item_id>>

\* recv() raises ConnectionClosed: the API loop breaks.
ApiClosed ==
    /\ runPc = "waiting"
    /\ apiPc = "recv"
    /\ apiSocket = "dead"
    /\ apiPc' = "done"
    /\ trace' = <<>>
    /\ last' = Input("api", "ConnectionClosed", None, "", <<>>)
    /\ prev' = Fields
    /\ UNCHANGED <<calls, outside>>
    /\ UNCHANGED <<runPc, fePc, is_connected, is_closed, client, serverClosed,
                   apiSocket, is_speech_active, current_audio_item_id,
                   last_item_id, current_response, current_transcript,
                   txHist, respHist, utterance>>

\* faulty variant: run() waits for both loops instead of the first one
RunFinishWaitsForAll ==
    /\ runPc = "waiting"
    /\ fePc = "done" /\ apiPc = "done"
    /\ LET c == SessionClose(is_connected, is_closed, client, serverClosed)
       IN /\ is_connected' = c.is_connected
          /\ is_closed' = c.is_closed
          /\ serverClosed' = c.serverClosed
          /\ trace' = ToClient(c.down)
    /\ apiSocket' = None
    /\ runPc' = "closed"
    /\ last' = Input("run", "finish", None, "", <<>>)
    /\ prev' = Fields
    /\ UNCHANGED <<fePc, apiPc, client, is_speech_active, current_audio_item_id,
                   last_item_id, current_response, current_transcript,
                   txHist, respHist, utterance, calls, outside>>

\* run() after asyncio.wait returned: cancel the pending task (a cancelled
\* frontend task runs its finally clause), then finally close().
RunFinish ==
    /\ runPc = "waiting"
    /\ fePc = "done" \/ apiPc = "done"
    /\ LET f == IF fePc = "recv"
                THEN WsClose(is_connected, is_closed, client, serverClosed)
                ELSE [is_connected |-> is_connected, is_closed |-> is_closed,
                      serverClosed |-> serverClosed, down |-> <<>>]
           c == SessionClose(f.is_connected, f.is_closed, client, f.serverClosed)
       IN /\ is_connected' = c.is_connected
          /\ is_closed' = c.is_closed
          /\ serverClosed' = c.serverClosed
          /\ trace' = ToClient(f.down \o c.down)
    /\ fePc' = IF fePc = "recv" THEN "cancelled" ELSE fePc
    /\ apiPc' = IF apiPc = "recv" THEN "cancelled" ELSE apiPc
    /\ apiSocket' = None
    /\ runPc' = "closed"
    /\ last' = Input("run", "finish", None, "", <<>>)
    /\ prev' = Fields
    /\ UNCHANGED <<calls, outside>>
    /\ UNCHANGED <<client, is_speech_active, current_audio_item_id,
                   last_item_id, current_response, current_transcript,
                   txHist, respHist, utterance>>

\* Environment: the client transport breaks; the remote API closes the socket.
ClientVanishes ==
    /\ runPc = "waiting"
    /\ client = "CONNECTED"
    /\ client' = "GONE"
    /\ UNCHANGED <<calls, outside>>
    /\ UNCHANGED <<runPc, fePc, apiPc, is_connected, is_closed, serverClosed,
                   apiSocket, is_speech_active, current_audio_item_id,
                   last_item_id, current_response, current_transcript, last,
                   trace, prev, txHist, respHist, utterance>>

UpstreamDies ==
    /\ runPc = "waiting"
    /\ apiSocket = "open"
    /\ apiSocket' = "dead"
    /\ UNCHANGED <<calls, outside>>
    /\ UNCHANGED <<runPc, fePc, apiPc, is_connected, is_closed, client,
                   serverClosed, is_speech_active, current_audio_item_id,
                   last_item_id, current_response, current_transcript, last,
                   trace, prev, txHist, respHist, utterance>>

\* The session over an alphabet of client frames and of upstream events.
Session(Frames, Events) ==
    \/ \E connect \in {"open", "fail", "dead"} : RunSetup(connect)
    \/ \E frame \in Frames, dies \in BOOLEAN : FeDispatch(frame, dies)
    \/ FeDisconnected
    \/ \E ev \in Events, geo \in GeoOutcomes, http \in HttpOutcomes :
           ApiDispatch(ev, geo, http)
    \/ ApiClosed
    \/ RunFinish
    \/ ClientVanishes
    \/ UpstreamDies

Next == Session(ClientFrames, ApiEvents)

Spec == Init /\ [][Next]_vars

(* The two handlers keep disjoint fields: FrontendMessageHandler owns          *)
(* is_speech_active, current_audio_item_id and last_item_id,                  *)
(* APIMessageHandler owns current_response and current_transcript, and each   *)
(* reaches the other only through the two links.  The translation of one      *)
(* direction is therefore explored over the full alphabet of that direction,  *)
(* with the other loop reduced to the frames that open and close the links.   *)

\* upstream events the frontend direction is explored with
FrontendSideEvents ==
    {Ev(t, None, "") : t \in {"input_audio_buffer.speech_started",
                              "input_audio_buffer.speech_stopped",
                              "session.created",
                              "<invalid json>", "<no type>"}}

\* client frames the API direction is explored with
ApiSideFrames == {[type |-> "disconnect", arg |-> ""]}

NextFrontend == Session(ClientFrames, FrontendSideEvents)

SpecFrontend == Init /\ [][NextFrontend]_vars

\* run() is suspended in asyncio.wait(FIRST_COMPLETED); the event loop resumes
\* it once one of the two tasks has completed.
SpecFrontendFair == SpecFrontend /\ WF_vars(RunFinish)

NextApi == Session(ApiSideFrames, ApiEvents)

\* Both directions at once, over the frames and events that write the fields
\* of the two handlers.
LoopFrames ==
    {[type |-> "<bytes>", arg |-> "pcm"], [type |-> "user_message", arg |-> "hi"],
     [type |-> "disconnect", arg |-> ""]}

LoopEvents ==
    {Ev("response.created", "r1", ""),
     Ev("response.audio_transcript.delta", "r1", "a"),
     Ev("response.done", "r1", ""),
     Ev("input_audio_buffer.speech_stopped", None, "")}

NextLoops == Session(LoopFrames, LoopEvents)

SpecLoops == Init /\ [][NextLoops]_vars

SpecApi == Init /\ [][NextApi]_vars

-----------------------------------------------------------------------------
(* The two link managers driven directly: any caller, any order of calls.   *)
(* WebSocketManager and OpenAIAPIManager are public classes; their methods  *)
(* are specified call by call, whatever the session does with them.         *)

\* faulty variant: accept does not look at is_closed
WsAcceptReopens(conn, closed, cl) ==
    IF ~conn
    THEN [is_connected |-> TRUE, client |-> "CONNECTED",
          down |-> <<ControlConnected>>, raised |-> FALSE]
    ELSE [is_connected |-> conn, client |-> cl, down |-> <<>>,
          raised |-> FALSE]

\* faulty variant: accept does not look at the state of the link
WsAcceptUnguarded(conn, closed, cl) ==
    [is_connected |-> TRUE, client |-> "CONNECTED",
     down |-> <<ControlConnected>>, raised |-> FALSE]

\* WebSocketManager.accept: [is_connected, client, down, raised]
WsAccept(conn, closed, cl) ==
    IF ~conn /\ ~closed
    THEN [is_connected |-> TRUE, client |-> "CONNECTED",
          down |-> <<ControlConnected>>, raised |-> FALSE]
    ELSE [is_connected |-> conn, client |-> cl, down |-> <<>>,
          raised |-> FALSE]

\* WebSocketManager.close catches the failure of the final frame (line 62),
\* of the transport close (line 69) and of anything else (line 72).
WsCloseRaises(conn, closed, cl, sc) == FALSE

\* WebSocketManager.send_json / send_bytes: [down, raised]
WsSend(frame, conn, closed, cl) ==
    LET dm == DownMode(conn, closed, cl)
    IN [down |-> Sent(dm, <<frame>>), raised |-> dm = "raise"]

\* faulty variant: connect does not look at the socket it already holds
ApiConnectAgain(sock, outcome) ==
    IF outcome = "open"
    THEN [sock |-> "open", raised |-> FALSE, dials |-> 1]
    ELSE [sock |-> sock, raised |-> TRUE, dials |-> 1]

\* OpenAIAPIManager.connect: [sock, raised, dials]; outcome is the outcome of
\* websockets.connect, dials the number of times it was called
ApiConnect(sock, outcome) ==
    IF sock # None THEN [sock |-> sock, raised |-> FALSE, dials |-> 0]
    ELSE IF outcome = "open"
    THEN [sock |-> "open", raised |-> FALSE, dials |-> 1]
    ELSE [sock |-> None, raised |-> TRUE, dials |-> 1]

\* OpenAIAPIManager.close: [sock, raised, closes]; closes counts the calls of
\* websocket.close(); its failure is logged, never raised
ApiClose(sock) ==
    [sock |-> None, raised |-> FALSE, closes |-> IF sock = None THEN 0 ELSE 1]

\* OpenAIAPIManager.send: [up, raised]
ApiSend(event, sock) ==
    LET um == UpMode(sock)
    IN [up |-> Sent(um, <<event>>), raised |-> um = "raise"]

LinkState == [conn |-> is_connected, closed |-> is_closed, cl |-> client,
              sock |-> apiSocket]

Call(op, arg, raised, down, up, dials, closes) ==
    [op |-> op, arg |-> arg, raised |-> raised, down |-> down, up |-> up,
     dials |-> dials, closes |-> closes, before |-> LinkState]

\* what a call on the links leaves alone
SessionIdle ==
    /\ runPc = "init"
    /\ UNCHANGED <<runPc, fePc, apiPc, is_speech_active, current_audio_item_id,
                   last_item_id, current_response, current_transcript, last,
                   trace, prev, txHist, respHist, utterance, outside>>

CallAccept ==
    /\ SessionIdle
    /\ Len(calls) < MaxCalls
    /\ LET a == WsAccept(is_connected, is_closed, client)
       IN /\ is_connected' = a.is_connected
          /\ client' = a.client
          /\ calls' = Append(calls, Call("ws.accept", "", a.raised, a.down,
                                         <<>>, 0, 0))
    /\ UNCHANGED <<is_closed, serverClosed, apiSocket>>

CallWsClose ==
    /\ SessionIdle
    /\ Len(calls) < MaxCalls
    /\ LET c == WsClose(is_connected, is_closed, client, serverClosed)
       IN /\ is_connected' = c.is_connected
          /\ is_closed' = c.is_closed
          /\ serverClosed' = c.serverClosed
          /\ calls' = Append(calls,
                Call("ws.close", "",
                     WsCloseRaises(is_connected, is_closed, client, serverClosed),
                     c.down, <<>>, 0,
                     IF c.serverClosed # serverClosed THEN 1 ELSE 0))
    /\ UNCHANGED <<client, apiSocket>>

CallWsSend(frame) ==
    /\ SessionIdle
    /\ Len(calls) < MaxCalls
    /\ LET r == WsSend(frame, is_connected, is_closed, client)
       IN calls' = Append(calls, Call("ws.send", frame.type, r.raised, r.down,
                                      <<>>, 0, 0))
    /\ UNCHANGED <<is_connected, is_closed, client, serverClosed, apiSocket>>

CallConnect(outcome) ==
    /\ SessionIdle
    /\ Len(calls) < MaxCalls
    /\ LET r == ApiConnect(apiSocket, outcome)
       IN /\ apiSocket' = r.sock
          /\ calls' = Append(calls, Call("api.connect", outcome, r.raised,
                                         <<>>, <<>>, r.dials, 0))
    /\ UNCHANGED <<is_connected, is_closed, client, serverClosed>>

CallApiClose ==
    /\ SessionIdle
    /\ Len(calls) < MaxCalls
    /\ LET r == ApiClose(apiSocket)
       IN /\ apiSocket' = r.sock
          /\ calls' = Append(calls, Call("api.close", "", r.raised, <<>>, <<>>,
                                         0, r.closes))
    /\ UNCHANGED <<is_connected, is_closed, client, serverClosed>>

CallApiSend ==
    /\ SessionIdle
    /\ Len(calls) < MaxCalls
    /\ LET r == ApiSend(AudioCommit, apiSocket)
       IN calls' = Append(calls, Call("api.send", "", r.raised, <<>>, r.up,
                                      0, 0))
    /\ UNCHANGED <<is_connected, is_closed, client, serverClosed, apiSocket>>

\* Environment: the client transport breaks; the remote API closes the socket.
TransportBreaks ==
    /\ SessionIdle
    /\ client = "CONNECTED"
    /\ client' = "GONE"
    /\ UNCHANGED <<is_connected, is_closed, serverClosed, apiSocket, calls>>

RemoteCloses ==
    /\ SessionIdle
    /\ apiSocket = "open"
    /\ apiSocket' = "dead"
    /\ UNCHANGED <<is_connected, is_closed, client, serverClosed, calls>>

LinkFrames == {TextDelta(ItemId, "r1", "a"), Bytes("pcm")}

LinkCalls ==
    \/ CallAccept
    \/ CallWsClose
    \/ \E frame \in LinkFrames : CallWsSend(frame)
    \/ \E outcome \in {"open", "fail"} : CallConnect(outcome)
    \/ CallApiClose
    \/ CallApiSend
    \/ TransportBreaks
    \/ RemoteCloses

SpecLinks == Init /\ [][LinkCalls]_vars

-----------------------------------------------------------------------------
(* get_weather_data called on its own, with any arguments, lookup outcomes  *)
(* and callback.                                                            *)

inside == <<runPc, fePc, apiPc, is_connected, is_closed, client, serverClosed,
            apiSocket, is_speech_active, current_audio_item_id, last_item_id,
            current_response, current_transcript, last, trace, prev,
            txHist, respHist, utterance, calls>>

ToolInit ==
    /\ SessionInit
    /\ tool \in [pc : {"called"}, lat : Lats, lon : Lons,
                  location_name : LocationNames, geo : GeoOutcomes,
                  http : HttpOutcomes, cb : CallbackOutcomes,
                  passed : {<<>>}, raised : {FALSE}]
    /\ RegistryInit
    /\ relay = NoRelay

ToolReturns ==
    /\ tool.pc = "called"
    /\ LET r == GetWeatherDataCalls(tool.lat, tool.lon, tool.location_name,
                                    tool.geo, tool.http, tool.cb)
       IN tool' = [tool EXCEPT !.pc = "returned", !.passed = r.passed,
                               !.raised = r.raised]
    /\ UNCHANGED <<inside, registry, relay>>

SpecTool == ToolInit /\ [][ToolReturns]_vars

-----------------------------------------------------------------------------
(* main.py: websocket_endpoint for several connections at once.  The session *)
(* itself is reduced to run() being entered and left.                        *)

\* the websocket object of the connection exists: from the call of the
\* endpoint until the endpoint is left
Alive(c) == endpointPc[c] \notin {"none", "done", "failed"}

\* dict assignment and del
DictSet(d, k, v) == [x \in DOMAIN d \cup {k} |-> IF x = k THEN v ELSE d[x]]

DictDel(d, k) == [x \in DOMAIN d \ {k} |-> d[x]]

\* session = RealtimeSession(websocket): connection_id = str(id(websocket))
EndpointCalled(c, id) ==
    /\ endpointPc[c] = "none"
    /\ \A d \in Conns : Alive(d) => connection_id[d] # id
    /\ endpointPc' = [endpointPc EXCEPT ![c] = "created"]
    /\ connection_id' = [connection_id EXCEPT ![c] = id]
    /\ UNCHANGED <<active_sessions, inside, tool, relay>>

\* active_sessions[session.connection_id] = session
EndpointRegisters(c) ==
    /\ endpointPc[c] = "created"
    /\ active_sessions' = DictSet(active_sessions, connection_id[c], c)
    /\ endpointPc' = [endpointPc EXCEPT ![c] = "registered"]
    /\ UNCHANGED <<connection_id, inside, tool, relay>>

\* await session.run() is entered
EndpointRuns(c) ==
    /\ endpointPc[c] = "registered"
    /\ endpointPc' = [endpointPc EXCEPT ![c] = "running"]
    /\ UNCHANGED <<connection_id, active_sessions, inside, tool, relay>>

\* run() returns, or raises what its except Exception clause does not catch
\* (asyncio.CancelledError)
EndpointRunEnds(c, how) ==
    /\ endpointPc[c] = "running"
    /\ endpointPc' = [endpointPc EXCEPT ![c] = how]
    /\ UNCHANGED <<connection_id, active_sessions, inside, tool, relay>>

\* faulty variant: the entry is deleted after a return of run() only, not in
\* a finally clause
EndpointCleansUpOnReturn(c) ==
    /\ endpointPc[c] \in {"returned", "raised"}
    /\ active_sessions' =
          IF endpointPc[c] = "returned"
             /\ connection_id[c] \in DOMAIN active_sessions
          THEN DictDel(active_sessions, connection_id[c])
          ELSE active_sessions
    /\ endpointPc' = [endpointPc EXCEPT
                         ![c] = IF endpointPc[c] = "returned" THEN "done"
                                ELSE "failed"]
    /\ UNCHANGED <<connection_id, inside, tool, relay>>

\* finally: if session.connection_id in active_sessions: del ...; the endpoint
\* is left, by a return or with the error of run()
EndpointCleansUp(c) ==
    /\ endpointPc[c] \in {"returned", "raised"}
    /\ active_sessions' =
          IF connection_id[c] \in DOMAIN active_sessions
          THEN DictDel(active_sessions, connection_id[c])
          ELSE active_sessions
    /\ endpointPc' = [endpointPc EXCEPT
                         ![c] = IF endpointPc[c] = "returned" THEN "done"
                                ELSE "failed"]
    /\ UNCHANGED <<connection_id, inside, tool, relay>>

RegistryNext ==
    \/ \E c \in Conns, id \in ObjectIds : EndpointCalled(c, id)
    \/ \E c \in Conns : EndpointRegisters(c)
    \/ \E c \in Conns : EndpointRuns(c)
    \/ \E c \in Conns, how \in {"returned", "raised"} : EndpointRunEnds(c, how)
    \/ \E c \in Conns : EndpointCleansUp(c)

SpecRegistry == Init /\ [][RegistryNext]_vars

-----------------------------------------------------------------------------
(* The two receive loops of a set-up session, write by write.  Each write of *)
(* a handler is an await, at which the other task may run; a loop awaits its *)
(* handler before it receives again.  Both links are up throughout.          *)

\* length of the two inbound streams
MaxStream == 2

\* upstream events and client frames whose handlers write
OrderEvents ==
    {Ev("response.created", "r1", ""),
     Ev("response.text.delta", "r1", "a"),
     [type |-> "response.done", rid |-> "r1", arg |-> "", out |-> <<"msg_text">>],
     Ev("conversation.item.created", None, "user_audio_inline")}

OrderFrames ==
    {[type |-> "<bytes>", arg |-> "pcm"], [type |-> "user_message", arg |-> "hi"]}

RelayInit ==
    /\ SessionInit /\ tool = NoTool /\ RegistryInit
    /\ relay \in [pc : {"run"},
                   inApi : [1..MaxStream -> OrderEvents],
                   inFe : [1..MaxStream -> OrderFrames],
                   nApi : {0}, nFe : {0},
                   apiTasks : {<<>>}, feTasks : {<<>>},
                   out : {<<>>},
                   cr : {None}, tr : {""},
                   sa : {FALSE}, aid : {None}, lid : {None}]

\* a handler under way: the message that caused it and its remaining writes
Task(loop, cause, writes) ==
    [loop |-> loop, cause |-> cause, writes |-> writes]

Started(tasks, t) == IF t.writes = <<>> THEN tasks ELSE Append(tasks, t)

\* faulty variant: the loop receives the next event while a handler is still
\* under way, as if each handler were started as a task of its own
ApiReceivesEarly ==
    /\ relay.pc = "run"
    /\ relay.inApi # <<>>
    /\ LET ev == Head(relay.inApi)
           r == HandleApiMessage(ev, relay.cr, relay.tr, "ok", "ok",
                                 "found", "ok")
           t == Task("api", relay.nApi + 1, ToClient(r.down) \o ToApi(r.up))
       IN relay' = [relay EXCEPT !.inApi = Tail(relay.inApi),
                                 !.nApi = relay.nApi + 1,
                                 !.cr = r.cr, !.tr = r.tr,
                                 !.apiTasks = Started(relay.apiTasks, t)]
    /\ UNCHANGED <<inside, tool, registry>>

\* message = await api_manager.receive(); await self.handle_message(message):
\* the next event is received when the handler of the one before has returned
ApiReceives ==
    /\ relay.pc = "run"
    /\ relay.inApi # <<>>
    /\ relay.apiTasks = <<>>
    /\ LET ev == Head(relay.inApi)
           r == HandleApiMessage(ev, relay.cr, relay.tr, "ok", "ok",
                                 "found", "ok")
           t == Task("api", relay.nApi + 1, ToClient(r.down) \o ToApi(r.up))
       IN relay' = [relay EXCEPT !.inApi = Tail(relay.inApi),
                                 !.nApi = relay.nApi + 1,
                                 !.cr = r.cr, !.tr = r.tr,
                                 !.apiTasks = Started(relay.apiTasks, t)]
    /\ UNCHANGED <<inside, tool, registry>>

\* message = await ws_manager.receive(); await self.handle_message(message)
FeReceives ==
    /\ relay.pc = "run"
    /\ relay.inFe # <<>>
    /\ relay.feTasks = <<>>
    /\ LET frame == Head(relay.inFe)
           r == HandleFrontendMessage(frame, TRUE, FALSE, "CONNECTED", FALSE,
                                      "open", relay.sa, relay.aid, relay.lid,
                                      FALSE)
           t == Task("fe", relay.nFe + 1, r.out)
       IN relay' = [relay EXCEPT !.inFe = Tail(relay.inFe),
                                 !.nFe = relay.nFe + 1,
                                 !.sa = r.sa, !.aid = r.aid, !.lid = r.lid,
                                 !.feTasks = Started(relay.feTasks, t)]
    /\ UNCHANGED <<inside, tool, registry>>

\* the tasks after the i-th of them made its next write
Advanced(tasks, i) ==
    LET rest == Tail(tasks[i].writes)
        kept == [tasks EXCEPT ![i].writes = rest]
    IN IF rest # <<>> THEN kept
       ELSE [k \in 1..(Len(tasks) - 1) |-> IF k < i THEN tasks[k]
                                            ELSE tasks[k + 1]]

Write(t) == [to |-> Head(t.writes).to, frame |-> Head(t.writes).frame,
             loop |-> t.loop, cause |-> t.cause]

\* one await ws_manager.send_json / send_bytes / api_manager.send of a handler
\* of the API loop
ApiWrites ==
    /\ relay.pc = "run"
    /\ \E i \in DOMAIN relay.apiTasks :
          relay' = [relay EXCEPT
                      !.out = Append(relay.out, Write(relay.apiTasks[i])),
                      !.apiTasks = Advanced(relay.apiTasks, i)]
    /\ UNCHANGED <<inside, tool, registry>>

\* the same for a handler of the frontend loop
FeWrites ==
    /\ relay.pc = "run"
    /\ \E i \in DOMAIN relay.feTasks :
          relay' = [relay EXCEPT
                      !.out = Append(relay.out, Write(relay.feTasks[i])),
                      !.feTasks = Advanced(relay.feTasks, i)]
    /\ UNCHANGED <<inside, tool, registry>>

RelayNext == ApiReceives \/ FeReceives \/ ApiWrites \/ FeWrites

SpecOrder == RelayInit /\ [][RelayNext]_vars

-----------------------------------------------------------------------------
(* Properties *)

LastApi(type) == last.loop = "api" /\ last.type = type

LastFrame(type) == last.loop = "fe" /\ last.type = type

\* the upstream events that carry a response_id field; response.created and
\* response.done name their response in response.id
CarriesResponseId(type) ==
    type \in {"response.text.delta", "response.audio.delta",
              "response.audio_transcript.delta",
              "response.audio_transcript.done",
              "response.function_call_arguments.delta",
              "response.function_call_arguments.done",
              "response.output_item.added"}

IsPlaceholder(f) ==
    /\ f.type = "user_message"
    /\ f.text = "..."
    /\ "has_audio" \in DOMAIN f
    /\ f.has_audio
    /\ f.is_transcribing

Placeholders(frames) == Cardinality({i \in DOMAIN frames : IsPlaceholder(frames[i])})

RECURSIVE Concat(_)
Concat(ds) == IF ds = <<>> THEN "" ELSE Head(ds) \o Concat(Tail(ds))

\* C1: an upstream response.* event that carries a response_id different from
\* the current response id (also when no response is in progress) causes no
\* frame, JSON or binary, to be written to the client.
C1_StaleResponseDiscarded ==
    (last.loop = "api" /\ CarriesResponseId(last.type) /\ last.rid # prev.cr)
        => DownEmit = <<>>

\* C1 witness: a text delta for another response arrived while a response was
\* in progress and the client link was up.
C1_Witness ==
    /\ LastApi("response.text.delta")
    /\ prev.cr # None
    /\ last.rid # prev.cr
    /\ prev.dm = "ok"

\* C2: input_audio_buffer.speech_stopped writes exactly one
\* input_audio_buffer.commit upstream and leaves is_speech_active false, next
\* to the control/speech_stopped frame.
C2_SpeechStoppedCommits ==
    (LastApi("input_audio_buffer.speech_stopped") /\ prev.dm = "ok"
                                                  /\ prev.um = "ok")
        => /\ UpEmit = <<AudioCommit>>
           /\ ~is_speech_active
           /\ DownEmit = <<ControlId("speech_stopped", ItemId)>>

\* C3: the first binary frame after the session start or after
\* is_speech_active was reset writes exactly one placeholder user_message,
\* and writes it before the chunk's input_audio_buffer.append; a binary frame
\* that finds is_speech_active set writes no placeholder.
C3_FirstChunkPlaceholder ==
    LastFrame("<bytes>") =>
        IF ~prev.sa
        THEN /\ Placeholders(DownEmit) = 1
             /\ trace[1].to = "client"
             /\ IsPlaceholder(trace[1].frame)
             /\ prev.um = "ok" =>
                    /\ Len(trace) = 2
                    /\ trace[2] = [to |-> "api",
                                   frame |-> [type |-> "input_audio_buffer.append",
                                              audio |-> B64Encode(last.arg)]]
        ELSE Placeholders(DownEmit) = 0

\* C3 witness: a second consecutive binary frame was forwarded.
C3_Witness ==
    /\ LastFrame("<bytes>")
    /\ prev.sa
    /\ utterance = "later"
    /\ Len(UpEmit) = 1

\* C4: the first binary frame of every utterance (the frames between two
\* speech_stopped events) writes the placeholder again, and is_speech_active
\* is set only inside an utterance.
C4_PlaceholderPerUtterance ==
    /\ (LastFrame("<bytes>") /\ utterance = "first" /\ prev.um = "ok")
           => Placeholders(DownEmit) = 1
    /\ is_speech_active => utterance # "new"

C6_TranscriptFlushed ==
    /\ LastApi("response.created") => current_transcript = ""
    /\ LastApi("response.done") => current_transcript = ""
    /\ (LastApi("response.audio_transcript.done") /\ last.rid = prev.cr)
           => current_transcript = ""

\* C7: a user_message with text writes upstream conversation.item.create (role
\* user, input_text, previous_item_id = the last item id before the message)
\* and then response.create with modalities ["text"], in this order and
\* nothing else; both are written when the upstream link takes the writes.
C7_TextMessageEvents ==
    (LastFrame("user_message") /\ TextOf(last) # "") =>
        /\ Len(UpEmit) <= 2
        /\ Len(UpEmit) >= 1 =>
               /\ UpEmit[1].type = "conversation.item.create"
               /\ UpEmit[1].previous_item_id = prev.lid
               /\ UpEmit[1].item.role = "user"
               /\ UpEmit[1].item.content =
                      <<[type |-> "input_text", text |-> TextOf(last)]>>
        /\ Len(UpEmit) = 2 =>
               /\ UpEmit[2].type = "response.create"
               /\ UpEmit[2].response.modalities = <<"text">>
        /\ (prev.um = "ok" /\ apiSocket = "open") => Len(UpEmit) = 2

\* C7 witness: a second text message, sent with the id of the first.
C7_Witness ==
    /\ LastFrame("user_message")
    /\ TextOf(last) # ""
    /\ prev.lid # None
    /\ Len(UpEmit) = 2

C9_EmptyTextRejected ==
    (LastFrame("user_message") /\ TextOf(last) = "") =>
        /\ trace = <<>>
        /\ last_item_id = prev.lid
        /\ fePc = "recv"

\* C9 witness: a user_message without a text field, after an accepted one.
C9_Witness ==
    /\ LastFrame("user_message")
    /\ last.arg = "<missing>"
    /\ prev.lid # None

RECURSIVE TextDeltaFrames(_, _)
TextDeltaFrames(ds, rid) ==
    IF ds = <<>> THEN <<>>
    ELSE <<[type |-> "text_delta", id |-> ItemId, response_id |-> rid,
            delta |-> Head(ds)]>> \o TextDeltaFrames(Tail(ds), rid)

\* C10: response.created{R}, text deltas for R, response.done for R with one
\* assistant text message: the client gets one text_delta per delta in arrival
\* order, then the final assistant_message, then control/response_complete.
C10_ResponseFrameOrder ==
    respHist.phase = "done" =>
        respHist.frames =
            TextDeltaFrames(respHist.ds, respHist.rid)
            \o <<[type |-> "assistant_message", id |-> ItemId,
                  text |-> ItemText, final |-> TRUE],
                 [type |-> "control", action |-> "response_complete",
                  id |-> respHist.rid]>>

\* C10 witness: two different deltas, then the response.done.
C10_Witness ==
    /\ respHist.phase = "done"
    /\ LastApi("response.done")
    /\ Len(respHist.ds) = 2
    /\ respHist.ds[1] # respHist.ds[2]

\* C11: once either receive loop has exited, the session ends: the other
\* loop is cancelled and both links reach the closed state.
C11_SessionTerminates ==
    (fePc = "done" \/ apiPc = "done")
        ~> /\ runPc = "closed"
           /\ fePc \in {"done", "cancelled"}
           /\ apiPc \in {"done", "cancelled"}
           /\ is_closed
           /\ ~is_connected
           /\ apiSocket = None

\* C11 witness: the API loop exited first and the frontend loop was cancelled.
C11_Witness ==
    /\ runPc = "closed"
    /\ apiPc = "done"
    /\ fePc = "cancelled"
    /\ is_closed
    /\ apiSocket = None

\* C12: on every termination path the upstream link is closed first: the
\* downstream link is never closed while the upstream socket is still held.
C12_UpstreamClosedFirst == is_closed => apiSocket = None

\* C13: after teardown the fields the two handlers use are cleared:
\* last_item_id and current_response are None, current_transcript is empty
\* and is_speech_active is false.
C13_TeardownClearsState ==
    runPc = "closed" =>
        /\ last_item_id = None
        /\ current_response = None
        /\ current_transcript = ""
        /\ ~is_speech_active

CallsOf(op) == {i \in DOMAIN calls : calls[i].op = op}

\* C14: a second close on either link writes no frame, closes no transport
\* and raises nothing: over all calls of WebSocketManager.close at most one
\* control/disconnected frame is written and the transport is closed at most
\* once, and OpenAIAPIManager.close on a closed link does nothing.
C14_CloseIdempotent ==
    /\ \A i \in CallsOf("ws.close") :
           /\ ~calls[i].raised
           /\ calls[i].before.closed =>
                  calls[i].down = <<>> /\ calls[i].closes = 0
    /\ Cardinality({i \in CallsOf("ws.close") : calls[i].down # <<>>}) <= 1
    /\ Cardinality({i \in CallsOf("ws.close") : calls[i].closes > 0}) <= 1
    /\ \A i \in CallsOf("ws.close") : Len(calls[i].down) <= 1
    /\ \A i \in CallsOf("api.close") :
           /\ ~calls[i].raised
           /\ calls[i].up = <<>>
           /\ calls[i].before.sock = None => calls[i].closes = 0

\* C14 witness: close was called twice on an open downstream link.
C14_Witness ==
    \E i, j \in CallsOf("ws.close") :
        /\ i < j
        /\ calls[i].before.conn
        /\ calls[i].down = <<ControlDisconnected>>

\* C15: a step of either loop, or of the teardown, that starts when the
\* downstream link is not open writes no frame to the client: after the link
\* has left the open state nothing follows the final control/disconnected.
C15_NoFrameAfterClose ==
    (last.loop \in {"api", "fe", "run"} /\ last.type # "setup" /\ ~prev.open)
        => DownEmit = <<>>

\* C15 witness: the API loop dispatched a delta of the current response after
\* the frontend loop had closed the downstream link.
C15_Witness ==
    /\ LastApi("response.text.delta")
    /\ last.rid = prev.cr
    /\ ~prev.open
    /\ is_closed

\* the state of the links right after call i
After(i) == IF i < Len(calls) THEN calls[i + 1].before ELSE LinkState

IsConnectedFrame(f) == f.type = "control" /\ f.action = "connected"

\* C16: accept on a link that is open or closed changes nothing and writes
\* nothing; on a connecting link it opens the link and writes exactly one
\* control/connected frame; so at most one such frame is ever written.
C16_AcceptOnce ==
    /\ \A i \in CallsOf("ws.accept") :
           /\ ~calls[i].raised
           /\ IF ~calls[i].before.conn /\ ~calls[i].before.closed
              THEN /\ After(i).conn /\ ~After(i).closed
                   /\ Len(calls[i].down) = 1
                   /\ IsConnectedFrame(calls[i].down[1])
              ELSE /\ After(i).conn = calls[i].before.conn
                   /\ After(i).closed = calls[i].before.closed
                   /\ calls[i].down = <<>>
    /\ Cardinality({i \in DOMAIN calls :
           \E k \in DOMAIN calls[i].down : IsConnectedFrame(calls[i].down[k])})
       <= 1

\* C16 witness: accept on the connecting link, on the open link, and again
\* after the link was closed.
C16_Witness ==
    /\ Len(calls) = 3
    /\ calls[1].op = "ws.accept" /\ calls[1].down # <<>>
    /\ calls[2].op \in {"ws.accept", "ws.close"}
    /\ calls[3].op = "ws.accept"

\* C17: WebSocketManager.close always leaves the link closed and raises
\* nothing, also when the final frame or the transport close fails.
C17_CloseAlwaysCloses ==
    \A i \in CallsOf("ws.close") :
        /\ After(i).closed
        /\ ~After(i).conn
        /\ ~calls[i].raised

\* C17 witness: close on an open link whose client transport is broken.
C17_Witness ==
    \E i \in CallsOf("ws.close") :
        /\ calls[i].before.conn
        /\ ~calls[i].before.closed
        /\ calls[i].before.cl = "GONE"
        /\ calls[i].down = <<>>

\* C18: the downstream link goes connecting, open, closed and never back:
\* it is never open and closed at once, a closed link stays closed and is
\* never open again, and an open link leaves the open state only by closing.
C18_StateMonotonic ==
    /\ [](~(is_connected /\ is_closed))
    /\ [][/\ is_closed => (is_closed' /\ ~is_connected')
          /\ (is_connected /\ ~is_connected') => is_closed']_vars

\* C18 witness: accept was called on a link that had been open and was closed.
C18_Witness ==
    \E i, j, k \in DOMAIN calls :
        /\ i < j /\ j < k
        /\ calls[i].op = "ws.accept"
        /\ calls[j].op = "ws.close" /\ calls[j].before.conn
        /\ calls[k].op = "ws.accept" /\ calls[k].before.closed

\* C19: OpenAIAPIManager.send raises whenever the event was not written,
\* that is when there is no connected socket or the write fails; it never
\* returns normally without having written the event.
C19_SendRaisesUnlessWritten ==
    \A i \in CallsOf("api.send") :
        IF calls[i].before.sock = "open"
        THEN calls[i].up = <<AudioCommit>> /\ ~calls[i].raised
        ELSE calls[i].up = <<>> /\ calls[i].raised

\* C20: connect on a link that holds a socket opens no second socket and
\* raises nothing; on a link without a socket it calls websockets.connect
\* once, and when that fails the error is raised and the link keeps no socket.
C20_ConnectIdempotent ==
    \A i \in CallsOf("api.connect") :
        IF calls[i].before.sock # None
        THEN /\ calls[i].dials = 0
             /\ ~calls[i].raised
             /\ After(i).sock # None
        ELSE /\ calls[i].dials = 1
             /\ calls[i].raised = (calls[i].arg = "fail")
             /\ (After(i).sock = None) = (calls[i].arg = "fail")

\* C20 witness: a failed attempt, a successful one, and a call on the
\* connected link.
C20_Witness ==
    /\ Len(calls) = 3
    /\ \A i \in 1..3 : calls[i].op = "api.connect"
    /\ calls[1].raised
    /\ calls[2].dials = 1 /\ ~calls[2].raised
    /\ calls[3].dials = 0

LastSetup(connect) == last.loop = "run" /\ last.type = "setup" /\ last.arg = connect

IsSessionUpdate(e) == e.type = "session.update"

\* C21: when the upstream connect fails in run() no event is written
\* upstream, neither receive loop is started, and the session ends with the
\* downstream link closed and no upstream socket.
C21_ConnectFailureTerminal ==
    LastSetup("fail") =>
        /\ UpEmit = <<>>
        /\ fePc = "idle" /\ apiPc = "idle"
        /\ runPc = "closed"
        /\ is_closed /\ ~is_connected
        /\ apiSocket = None
        /\ DownEmit = <<ControlConnected, ControlDisconnected>>

\* C21 witness: the setup step whose connect failed.
C21_Witness == LastSetup("fail") /\ runPc = "closed" /\ serverClosed

\* C22: the first frame written to the client is control/connected; the
\* first event written upstream is session.update, written once and only by
\* the setup; no client frame and no upstream event is dispatched before the
\* setup has written it, and the setup runs once.
C22_SetupFirst ==
    /\ [](/\ runPc = "init" => last = NoInput /\ trace = <<>>
          /\ (last.loop = "run" /\ last.type = "setup") =>
                 /\ DownEmit # <<>> /\ IsConnectedFrame(DownEmit[1])
                 /\ Cardinality({i \in DOMAIN DownEmit :
                                    IsConnectedFrame(DownEmit[i])}) = 1
                 /\ last.arg = "open" =>
                        /\ UpEmit # <<>> /\ IsSessionUpdate(UpEmit[1])
                        /\ Cardinality({i \in DOMAIN UpEmit :
                                           IsSessionUpdate(UpEmit[i])}) = 1
          /\ last.loop \in {"fe", "api"} =>
                 /\ \A i \in DOMAIN UpEmit : ~IsSessionUpdate(UpEmit[i])
                 /\ \A i \in DOMAIN DownEmit : ~IsConnectedFrame(DownEmit[i]))
    /\ [][runPc # "init" =>
              /\ runPc' # "init"
              /\ last' # last => last'.type # "setup"]_vars

\* C22 witness: a client frame was translated after the setup.
C22_Witness ==
    /\ LastFrame("user_message")
    /\ Len(UpEmit) = 2
    /\ runPc = "waiting"

IsAudioSendError(f) ==
    /\ f.type = "user_message"
    /\ f.text = "Failed to send audio"
    /\ "error" \in DOMAIN f
    /\ f.has_audio
    /\ ~f.is_transcribing

\* C23: when the append of an audio chunk fails upstream, is_speech_active is
\* reset, exactly one error user_message with the placeholder's id is written
\* to the client (after the placeholder when the chunk was the first one),
\* the frontend loop keeps receiving, and so the next binary frame writes a
\* placeholder again.
C23_AudioSendFailure ==
    (LastFrame("<bytes>") /\ prev.um = "raise") =>
        /\ ~is_speech_active
        /\ UpEmit = <<>>
        /\ Len(DownEmit) = IF prev.sa THEN 1 ELSE 2
        /\ ~prev.sa => IsPlaceholder(DownEmit[1])
        /\ IsAudioSendError(DownEmit[Len(DownEmit)])
        /\ DownEmit[Len(DownEmit)].id = current_audio_item_id
        /\ current_audio_item_id = AudioId
        /\ fePc = "recv" /\ runPc = "waiting" /\ ~is_closed

\* C23 witness: the binary frame after a failed one: a new placeholder.
C23_Witness ==
    /\ LastFrame("<bytes>")
    /\ utterance = "later"
    /\ ~prev.sa
    /\ prev.um = "raise"
    /\ IsPlaceholder(DownEmit[1])

\* C24: a user_message whose upstream write fails is only logged: the
\* frontend loop keeps receiving and the session is not torn down.
C24_SendFailureOnlyLogged ==
    (LastFrame("user_message") /\ TextOf(last) # "") =>
        /\ fePc = "recv"
        /\ ~is_closed
        /\ runPc = "waiting"

Malformed(type) == type \in {"<invalid json>", "<not an object>", "<no type>"}

FieldsKept ==
    /\ is_speech_active = prev.sa
    /\ last_item_id = prev.lid
    /\ current_response = prev.cr
    /\ current_transcript = prev.tr

\* C25: a malformed frame of either peer (no JSON, or JSON that is no object
\* with a type) writes nothing to either link, changes no field of the
\* handlers, and the loop that received it keeps receiving.
C25_MalformedDropped ==
    (last.loop \in {"fe", "api"} /\ Malformed(last.type)) =>
        /\ trace = <<>>
        /\ FieldsKept
        /\ last.loop = "fe" => fePc = "recv" /\ ~is_closed
        /\ (last.loop = "api" /\ prev.open) => apiPc = "recv"

\* C26: the client's disconnect message is terminal.  The disconnected notice
\* is the first frame written for it and nothing is written upstream, the
\* frontend loop stops and the client link is closed; once the loop has
\* stopped it stays stopped and no further client frame is handled; and the
\* session goes on to its teardown.
C26_DisconnectTerminal ==
    /\ [](LastFrame("disconnect") =>
            /\ fePc = "done"
            /\ is_closed /\ ~is_connected
            /\ DownEmit # <<>>
            /\ DownEmit[1] = ControlDisconnected
            /\ UpEmit = <<>>)
    /\ [][fePc = "done" => /\ fePc' = "done"
                           /\ ~(last' # last /\ last'.loop = "fe")]_vars
    /\ (LastFrame("disconnect") ~> runPc = "closed")

\* a disconnect message after a text message, the notice written, the loop
\* stopped and the session about to be torn down
C26_Witness ==
    /\ last.loop = "fe" /\ last.type = "disconnect"
    /\ prev.lid # None
    /\ DownEmit # <<>> /\ DownEmit[1] = ControlDisconnected
    /\ fePc = "done"
    /\ runPc = "waiting"

\* C27: a client text message whose type is none of the handled ones (or is
\* missing), and an upstream event whose type no handler takes, is ignored:
\* nothing is written to either link, no field of the handlers changes, and
\* the loop that received it keeps receiving.
C27_UnknownTypeIgnored ==
    (LastFrame("ping") \/ LastFrame("<no type>") \/ LastApi("session.created"))
        => /\ trace = <<>>
           /\ FieldsKept
           /\ last.loop = "fe" => fePc = "recv" /\ ~is_closed
           /\ (last.loop = "api" /\ prev.open) => apiPc = "recv"

\* an unhandled upstream event while an utterance is being streamed and a text
\* message has been forwarded
C27_Witness ==
    /\ LastApi("session.created")
    /\ prev.sa /\ prev.lid # None /\ prev.open
    /\ apiPc = "recv"

\* the final frames the output items of a response.done call for: one for each
\* assistant message item with text content
RECURSIVE FinalsFor(_)
FinalsFor(items) ==
    IF items = <<>> THEN <<>>
    ELSE (IF Head(items) = "msg_text"
          THEN <<AssistantFinal(ItemId, ItemText)>> ELSE <<>>)
         \o FinalsFor(Tail(items))

\* C28: every response.done received while the client link is up, whatever its
\* output items, writes one final assistant_message for each assistant message
\* item with text content, then exactly one response_complete control frame
\* naming the response, and leaves current_response empty.
C28_EveryResponseDoneCompletes ==
    (LastApi("response.done") /\ prev.dm = "ok") =>
        /\ DownEmit = FinalsFor(last.out)
                        \o <<ControlId("response_complete", last.rid)>>
        /\ UpEmit = <<>>
        /\ current_response = None

\* C29: one response is live at a time.  current_response is set by
\* response.created, which replaces whatever was live, and is empty again after
\* the response.done of the live response; no other event changes it; and an
\* event addressed to another response than the live one, a delta or a
\* completion, writes nothing and leaves the live response alone.
C29_OneLiveResponse ==
    (last.loop = "api" /\ prev.dm = "ok") =>
        CASE last.type = "response.created" -> current_response = last.rid
          [] last.type = "response.done" /\ last.rid = prev.cr ->
                current_response = None
          [] last.type = "response.done" /\ prev.cr = None ->
                current_response = None
          [] last.type = "response.done" ->
                trace = <<>> /\ current_response = prev.cr
          [] CarriesResponseId(last.type) /\ last.rid # prev.cr ->
                trace = <<>> /\ current_response = prev.cr
          [] OTHER -> current_response = prev.cr

\* what one invocation of the tool writes upstream when its callback works:
\* the error item, or the weather item followed by response.create
OneInvocation == {<<ToolItem("Error")>>,
                  <<ToolItem("Weather data"), ResponseCreateWeather>>}

\* C30: response.function_call_arguments.delta writes nothing to either link.
\* response.function_call_arguments.done for the current response writes
\* nothing when its arguments are no JSON; when they are JSON the tool runs
\* exactly once with the upstream send as its callback, which shows as the
\* events of one invocation on the upstream link and nothing on the client
\* link.
C30_ToolInvokedOnce ==
    /\ LastApi("response.function_call_arguments.delta") => trace = <<>>
    /\ (LastApi("response.function_call_arguments.done")
            /\ prev.cr # None /\ last.rid = prev.cr /\ prev.um = "ok")
        => IF last.arg = "not_json" THEN trace = <<>>
           ELSE DownEmit = <<>> /\ UpEmit \in OneInvocation

\* C30 as amended: response.function_call_arguments.delta writes nothing to
\* either link.  response.function_call_arguments.done for the current
\* response writes nothing when its arguments are no JSON or are JSON that is
\* no object; when they are a JSON object the tool runs exactly once with the
\* upstream send as its callback.
C30_ToolInvokedOnceForObject ==
    /\ LastApi("response.function_call_arguments.delta") => trace = <<>>
    /\ (LastApi("response.function_call_arguments.done")
            /\ prev.cr # None /\ last.rid = prev.cr /\ prev.um = "ok")
        => IF last.arg \in {"not_json", "not_object"} THEN trace = <<>>
           ELSE DownEmit = <<>> /\ UpEmit \in OneInvocation

\* the arguments of the current response's call were coordinates and the tool
\* wrote the weather item and response.create upstream
C30_Witness ==
    /\ LastApi("response.function_call_arguments.done")
    /\ prev.cr # None /\ last.rid = prev.cr /\ prev.um = "ok"
    /\ last.arg = "coords"
    /\ UpEmit = <<ToolItem("Weather data"), ResponseCreateWeather>>

\* the events passed to the callback by the tool run, in order
Passed == [i \in 1..Len(tool.passed) |-> tool.passed[i].event]

\* every call of the callback returned
CallbackWorks == \A i \in DOMAIN tool.passed : tool.passed[i].outcome = "ok"

IsItemCreate(e) == e.type = "conversation.item.create"

IsErrorItem(e) ==
    IsItemCreate(e) /\ e.item.content[1].text = "Error"

\* C31: with a working callback, a tool run without usable location input
\* (no location name and a coordinate missing) or whose geocoding finds
\* nothing passes exactly one error item and no response.create to the
\* callback; a run whose lookups succeed passes exactly one item with the
\* forecast data and then exactly one response.create with the modalities audio
\* and text.
C31_ToolCallbackEvents ==
    (tool.pc = "returned" /\ CallbackWorks) =>
        LET named == tool.location_name \notin {None, ""}
            missing == ~named /\ (tool.lat = None \/ tool.lon = None)
            notFound == named /\ tool.geo = "empty"
            success == /\ named => tool.geo = "found"
                       /\ ~missing
                       /\ tool.http = "ok"
        IN /\ (missing \/ notFound) =>
                 /\ Len(Passed) = 1
                 /\ IsErrorItem(Passed[1])
           /\ success =>
                 /\ Len(Passed) = 2
                 /\ IsItemCreate(Passed[1])
                 /\ Passed[1].item.content[1].text = "Weather data"
                 /\ Passed[2].type = "response.create"
                 /\ Passed[2].response.modalities = <<"audio", "text">>

\* a location name the geocoder does not know, the error item delivered
C31_Witness ==
    /\ tool.pc = "returned"
    /\ tool.location_name = "Oslo" /\ tool.geo = "empty"
    /\ CallbackWorks
    /\ Len(Passed) = 1 /\ IsErrorItem(Passed[1])

\* C40: one run of the tool passes at most one conversation.item.create to its
\* callback, whatever the lookups return and whichever calls of the callback
\* raise.
C40_AtMostOneItemCreate ==
    tool.pc = "returned" =>
        Cardinality({i \in DOMAIN Passed : IsItemCreate(Passed[i])}) <= 1

\* the client link was up when the last step began, and the transport intact
LinkWasUp == prev.open /\ client = "CONNECTED"

ItemCreatedFrames(variant, inline) ==
    CASE variant \in inline -> <<Placeholder(ItemId), Bytes("pcm")>>
      [] variant \in {"user_audio", "user_audio_inline",
                      "user_audio_inline_bad"} -> <<Placeholder(ItemId)>>
      [] variant = "user_text" ->
            <<[type |-> "user_message", id |-> ItemId, text |-> ItemText]>>
      [] variant = "assistant_text" ->
            <<[type |-> "assistant_message", id |-> ItemId, text |-> ItemText]>>
      [] variant = "assistant_empty" ->
            <<[type |-> "assistant_message", id |-> ItemId, text |-> "",
               in_progress |-> TRUE]>>
      [] OTHER -> <<>>

\* C33 as stated: with the client link up, conversation.item.created writes to
\* the client what the role and the first content element of the item call
\* for, with one binary frame after the placeholder whenever the element
\* carries inline audio, and nothing upstream.
C33_ItemCreated ==
    (LastApi("conversation.item.created") /\ LinkWasUp) =>
        /\ DownEmit = ItemCreatedFrames(last.arg, {"user_audio_inline",
                                                   "user_audio_inline_bad"})
        /\ UpEmit = <<>>

\* C33 as amended: the binary frame follows the placeholder when the inline
\* audio is base64 that decodes; inline audio that does not decode gives the
\* placeholder alone.
C33_ItemCreatedDecodable ==
    (LastApi("conversation.item.created") /\ LinkWasUp) =>
        /\ DownEmit = ItemCreatedFrames(last.arg, {"user_audio_inline"})
        /\ UpEmit = <<>>

\* a user item with inline audio arrived while a response was in progress:
\* the placeholder and the decoded audio were written
C33_Witness ==
    /\ LastApi("conversation.item.created")
    /\ LinkWasUp
    /\ last.arg = "user_audio_inline"
    /\ prev.cr # None
    /\ DownEmit = <<Placeholder(ItemId), Bytes("pcm")>>

\* C34: the item id of the conversation.item.create written for a user_message
\* differs from the id of the item written for the user_message before it
\* (which last_item_id holds), and the event's previous_item_id is not its own
\* item id.
C34_ItemIdsUnique ==
    LastFrame("user_message") =>
        \A i \in DOMAIN UpEmit :
            UpEmit[i].type = "conversation.item.create" =>
                /\ UpEmit[i].item.id # prev.lid
                /\ UpEmit[i].previous_item_id # UpEmit[i].item.id

\* the connections whose id is a key of active_sessions with their session as
\* the value
Registered ==
    {c \in Conns : /\ connection_id[c] \in DOMAIN active_sessions
                   /\ active_sessions[connection_id[c]] = c}

\* C35: active_sessions holds the id of a connection from before its run()
\* starts until the endpoint is left, and only then: the entry is there while
\* run() is running and when run() has just returned or raised, it is gone
\* once the endpoint is left on either path, and the registry has no other
\* entries, for any number of sessions at a time.
C35_RegistryTracksSessions ==
    /\ \A c \in Conns :
          /\ endpointPc[c] \in {"registered", "running", "returned", "raised"}
                => c \in Registered
          /\ endpointPc[c] \in {"none", "created", "done", "failed"}
                => \A k \in DOMAIN active_sessions : active_sessions[k] # c
    /\ \A k \in DOMAIN active_sessions :
          /\ active_sessions[k] \in Registered
          /\ connection_id[active_sessions[k]] = k

\* two sessions running at once after a third one ended with an error and one
\* of them got the object identity of the ended one
C35_Witness ==
    \E a, b, c \in Conns :
        /\ endpointPc[a] = "running" /\ endpointPc[b] = "running"
        /\ a # b
        /\ endpointPc[c] = "failed"
        /\ connection_id[c] = connection_id[a]
        /\ DOMAIN active_sessions = {connection_id[a], connection_id[b]}

IsDisconnectedFrame(f) == f.type = "control" /\ f.action = "disconnected"

\* C36: a step in which the server closes the client socket while the client
\* transport is intact writes a control/disconnected frame or an error-shaped
\* message to the client before the close.
C36_NoticeBeforeClose ==
    [][(~serverClosed /\ serverClosed' /\ client' = "CONNECTED") =>
          \E i \in DOMAIN DownEmit' :
              \/ IsDisconnectedFrame(DownEmit'[i])
              \/ IsAudioSendError(DownEmit'[i])]_vars

\* the session was torn down because the API loop ended: the client, still
\* connected, got the final frame with the close
C36_Witness ==
    /\ runPc = "closed"
    /\ last.type = "finish"
    /\ serverClosed /\ client = "CONNECTED"
    /\ ~prev.sa /\ prev.open
    /\ DownEmit = <<ControlDisconnected>>

C38_OneDisconnectedFrame ==
    Cardinality({i \in DOMAIN DownEmit : IsDisconnectedFrame(DownEmit[i])}) <= 1

\* C39: the frames the API loop writes to the client appear in the order in
\* which the events that caused them were received, and the events the
\* frontend loop writes upstream in the order in which the client frames that
\* caused them were received.
C39_OrderPreserved ==
    relay.pc = "run" =>
        \A i, j \in DOMAIN relay.out :
            (/\ i < j
             /\ relay.out[i].loop = relay.out[j].loop
             /\ relay.out[i].to = relay.out[j].to
             /\ \/ relay.out[i].loop = "api" /\ relay.out[i].to = "client"
                \/ relay.out[i].loop = "fe" /\ relay.out[i].to = "api")
            => relay.out[i].cause <= relay.out[j].cause

\* both streams were relayed to the end: an item with inline audio and a
\* response.done in one direction, an audio chunk and a text message in the
\* other, the writes of the two loops interleaved
C39_Witness ==
    /\ relay.pc = "run"
    /\ relay.inApi = <<>> /\ relay.inFe = <<>>
    /\ relay.apiTasks = <<>> /\ relay.feTasks = <<>>
    /\ Len(relay.out) >= 6
    /\ relay.out[1].loop = "api" /\ relay.out[2].loop = "fe"
    /\ relay.out[3].loop = "api"
    /\ \E i \in DOMAIN relay.out :
          relay.out[i].loop = "api" /\ relay.out[i].cause = 2
    /\ \E i \in DOMAIN relay.out :
          relay.out[i].loop = "fe" /\ relay.out[i].cause = 2
                                  /\ relay.out[i].to = "api"

====
